---- MODULE Spec2Model ----
(***************************************************************************)
(* Weekendly: the WeekendSchedule component (drag-and-drop placement,      *)
(* conflict detection, edit dialog) and the Page that mirrors its list and *)
(* adds catalog activities.                                                *)
(*                                                                         *)
(* Time texts ("HH:MM") are sequences of one-character strings, so that    *)
(* formatting (toTimeString, normalizeTime) and parsing (toMinutes) are    *)
(* computed the way the code computes them.  Durations and minute counts   *)
(* are integers.  Presentation-only state of the component (dayTab,        *)
(* draggingId, hoverDay, hoverMinutes) is left out.  The edit dialog is    *)
(* modal: from openEdit to saveEdit only the fields of the draft change,   *)
(* so an edit session is one step whose input is the draft it submits.     *)
(*                                                                         *)
(* Four specifications of the page: SpecSchedule (the component alone),    *)
(* Spec (the Page with the component and the catalog), SpecPlans (the Page *)
(* with undo, redo, clear, themes, the plans in localStorage and a new     *)
(* session) and SpecHelpers (the helper functions called one at a time).   *)
(*                                                                         *)
(* Two specifications of the PersistenceManager: SpecStore (one session:   *)
(* the open request of init and the awaited calls, each dispatching on     *)
(* this.db) and SpecTwin (the same calls given to a session with IndexedDB *)
(* and to one without).  A call is one step: calls are awaited one after   *)
(* the other.  An IndexedDB transaction that aborts after its promise      *)
(* resolved leaves the stores as they were.  Timestamps and generated ids  *)
(* are ticks of a clock.                                                   *)
(* Three more of it: SpecQuota (a session without IndexedDB whose          *)
(* localStorage runs out of quota), SpecTabs (two tabs on one backend,     *)
(* saveThemePlan in two steps: its read and its write) and SpecKeys        *)
(* (patches that carry the plan's id or createdAt).                        *)
(*                                                                         *)
(* SpecView: the virtualization hooks, render by render (the heights of    *)
(* the timeline hook are set by an effect after the render).               *)
(* SpecDebounce: the wrappers of PerformanceOptimizer.debounce and their   *)
(* timers; a timer that is set may fire at any later step.                 *)
(* SpecWorker: the service worker, its install and its fetch events, with  *)
(* the network and the cache storage failing or not.                       *)
(***************************************************************************)
EXTENDS Integers, Sequences, FiniteSets, TLC

VARIABLES
    activities,      \* WeekendSchedule: useState activities
    hasOnChange,     \* whether the component was given an onChange prop
    pageActivities,  \* Page: useState activities (the mirror)
    past,            \* Page: undo history
    future,          \* Page: redo history
    scheduleKey,     \* Page: remount key of WeekendSchedule
    theme,           \* Page: useState theme
    stored,          \* localStorage: the plan kept under weekendly.plan.<theme>
    call,            \* a helper function's call: the function and its arguments
    ret,             \* what that call returned
    db,              \* PersistenceManager: whether this.db holds a database
    openRequest,     \* PersistenceManager.init: the state of indexedDB.open
    idb,             \* IndexedDB: the plans, activities and settings stores
    ls,              \* localStorage: the weekendly.plan.plan_* and weekendly.settings.* items
    clock,           \* Date.now(), counted in calls
    reply,           \* how the last call of the PersistenceManager settled
    tabs,            \* two tabs of one origin: the saveThemePlan each one is in
    view,            \* the virtualization hooks: collection, itemHeights, scrollOffset
    timers,          \* PerformanceOptimizer.debounceTimers, and the calls and invocations so far
    sw               \* the service worker: its caches and the last response

pageVars == <<pageActivities, past, future, scheduleKey, theme, stored>>
callVars == <<call, ret>>
storeVars == <<db, openRequest, idb, ls, clock, reply>>
auxVars == <<tabs, view, timers, sw>>
vars == <<activities, hasOnChange, pageActivities, past, future, scheduleKey,
          theme, stored, call, ret, db, openRequest, idb, ls, clock, reply,
          tabs, view, timers, sw>>

----------------------------------------------------------------------------
(* Program constants *)

HOURS_FALLBACK_START == 5
HOURS_FALLBACK_END == 23
MIN_SLOT_MINUTES == 15
PADDING_TOP == 8
PADDING_BOTTOM == 8

\* The Page renders WeekendSchedule without startHour/endHour: the defaults apply.
startHour == HOURS_FALLBACK_START
endHour == HOURS_FALLBACK_END

----------------------------------------------------------------------------
(* Bounds of the model *)

\* Size of the universe of activity ids (a fresh id is one no part of the
\* state refers to); it also bounds the length of the list.
MaxIds == 2
\* Cap on the number of list changes the Page records in its undo history
\* (each change pushes three entries onto `past`).
MaxChanges == 3

----------------------------------------------------------------------------
(* JavaScript numbers and strings *)

\* The not-a-number result of parseInt on text without digits.
NaN == 0 - 1000000

Min2(a, b) == IF a < b THEN a ELSE b
Max2(a, b) == IF a > b THEN a ELSE b

\* Math.round(num / den) for den > 0: the nearest integer, halves upwards.
MathRound(num, den) == (2 * num + den) \div (2 * den)

\* JavaScript's %: the remainder has the sign of the dividend.
JsRem(a, b) == IF a >= 0 THEN a % b ELSE 0 - ((0 - a) % b)

DigitChars == <<"0", "1", "2", "3", "4", "5", "6", "7", "8", "9">>
IsDigit(c) == \E i \in 1..10 : DigitChars[i] = c
DigitVal(c) == (CHOOSE i \in 1..10 : DigitChars[i] = c) - 1

RECURSIVE NatToStr(_)
NatToStr(n) == IF n < 10 THEN <<DigitChars[n + 1]>>
               ELSE NatToStr(n \div 10) \o <<DigitChars[(n % 10) + 1]>>

\* String(n) for an integer n.
NumToStr(n) == IF n < 0 THEN <<"-">> \o NatToStr(0 - n) ELSE NatToStr(n)

\* s.padStart(2, "0")
PadStart2(s) == IF Len(s) >= 2 THEN s ELSE <<"0">> \o s

\* The longest prefix of digits of s, as a number; NaN when there is none.
RECURSIVE DigitsPrefixVal(_, _, _)
DigitsPrefixVal(s, i, acc) ==
    IF i > Len(s) \/ ~IsDigit(s[i])
    THEN (IF i = 1 THEN NaN ELSE acc)
    ELSE DigitsPrefixVal(s, i + 1, acc * 10 + DigitVal(s[i]))

\* parseInt(s, 10): an optional sign, then the longest run of digits.
ParseInt(s) ==
    IF Len(s) = 0 THEN NaN
    ELSE IF s[1] = "-"
         THEN LET v == DigitsPrefixVal(Tail(s), 1, 0) IN IF v = NaN THEN NaN ELSE 0 - v
         ELSE IF s[1] = "+" THEN DigitsPrefixVal(Tail(s), 1, 0)
         ELSE DigitsPrefixVal(s, 1, 0)

\* s.split(":")
RECURSIVE SplitColon(_, _, _)
SplitColon(s, i, cur) ==
    IF i > Len(s) THEN <<cur>>
    ELSE IF s[i] = ":" THEN <<cur>> \o SplitColon(s, i + 1, <<>>)
    ELSE SplitColon(s, i + 1, Append(cur, s[i]))

AllDigits(s) == \A i \in 1..Len(s) : IsDigit(s[i])

----------------------------------------------------------------------------
(* Time helpers of WeekendSchedule *)

toMinutes(time) ==
    LET parts == SplitColon(time, 1, <<>>)
        h == ParseInt(parts[1])
        m == IF Len(parts) >= 2 THEN ParseInt(parts[2]) ELSE NaN
    IN  IF h = NaN THEN NaN ELSE h * 60 + (IF m = NaN THEN 0 ELSE m)

\* toTimeString without padStart.
toTimeStringNoPad(total) ==
    NumToStr(total \div 60) \o <<":">> \o NumToStr(JsRem(total, 60))

toTimeString(total) ==
    LET h == total \div 60
        m == JsRem(total, 60)
    IN  PadStart2(NumToStr(h)) \o <<":">> \o PadStart2(NumToStr(m))

clamp(val, min, max) == Min2(Max2(val, min), max)

\* roundToStep with Math.floor in place of Math.round.
roundToStepDown(minutes, step) == (minutes \div step) * step

roundToStep(minutes, step) == MathRound(minutes, step) * step

\* normalizeTime without its two clamps.
normalizeTimeNoClamp(val) ==
    LET parts == SplitColon(val, 1, <<>>)
        wellFormed == /\ Len(parts) = 2
                      /\ Len(parts[1]) \in {1, 2}
                      /\ Len(parts[2]) = 2
                      /\ AllDigits(parts[1])
                      /\ AllDigits(parts[2])
    IN  IF ~wellFormed THEN <<"0", "8", ":", "0", "0">>
        ELSE PadStart2(NumToStr(ParseInt(parts[1])))
             \o <<":">> \o PadStart2(NumToStr(ParseInt(parts[2])))

normalizeTime(val) ==
    LET parts == SplitColon(val, 1, <<>>)
        wellFormed == /\ Len(parts) = 2
                      /\ Len(parts[1]) \in {1, 2}
                      /\ Len(parts[2]) = 2
                      /\ AllDigits(parts[1])
                      /\ AllDigits(parts[2])
    IN  IF ~wellFormed THEN <<"0", "8", ":", "0", "0">>
        ELSE PadStart2(NumToStr(clamp(ParseInt(parts[1]), 0, 23)))
             \o <<":">> \o PadStart2(NumToStr(clamp(ParseInt(parts[2]), 0, 59)))

----------------------------------------------------------------------------
(* A call of one helper function, examined on its own *)

\* No call made; no value returned yet.
NoCall == [fn |-> "", text |-> <<>>, n |-> 0, step |-> 0, top |-> 0, height |-> 0,
           list |-> <<>>]
NoRet == [done |-> FALSE, text |-> <<>>, n |-> 0, list |-> <<>>, isPrev |-> FALSE]

----------------------------------------------------------------------------
(* Activities *)

Days == {"saturday", "sunday"}
NoId == 0
NoMood == "undefined"
Ids == 1..MaxIds

T1100 == <<"1", "1", ":", "0", "0">>
T2200 == <<"2", "2", ":", "0", "0">>
T1200 == <<"1", "2", ":", "0", "0">>

IdsOf(list) == {list[i].id : i \in 1..Len(list)}

\* Ids some part of the state still refers to.  The code mints ids from the
\* clock and a random suffix, so a new id differs from all of them.
RECURSIVE IdsOfHistory(_)
IdsOfHistory(h) == IF Len(h) = 0 THEN {} ELSE IdsOf(Head(h)) \cup IdsOfHistory(Tail(h))

UsedIds == IdsOf(activities) \cup IdsOf(pageActivities)
           \cup IdsOfHistory(past) \cup IdsOfHistory(future)
           \cup UNION {IdsOf(stored[t].json) : t \in DOMAIN stored}

HasFreshId == Ids \ UsedIds # {}
FreshId == CHOOSE i \in Ids \ UsedIds : \A j \in Ids \ UsedIds : i <= j
NextId == IF HasFreshId THEN FreshId ELSE NoId

----------------------------------------------------------------------------
(* Conflict detection *)

\* A faulty variant of hasConflict: closed intervals, so that back-to-back
\* activities conflict.
hasConflictClosed(list, candidate, excludeId) ==
    LET dayActs == SelectSeq(list, LAMBDA a : a.day = candidate.day /\ a.id # excludeId)
        cStart == toMinutes(candidate.start)
        cEnd == cStart + candidate.durationMins
    IN  \E i \in 1..Len(dayActs) :
            LET aStart == toMinutes(dayActs[i].start)
                aEnd == aStart + dayActs[i].durationMins
            IN  cStart <= aEnd /\ aStart <= cEnd

\* A faulty variant of hasConflict: only a candidate that starts inside an
\* activity conflicts.
hasConflictOneSided(list, candidate, excludeId) ==
    LET dayActs == SelectSeq(list, LAMBDA a : a.day = candidate.day /\ a.id # excludeId)
        cStart == toMinutes(candidate.start)
        cEnd == cStart + candidate.durationMins
    IN  \E i \in 1..Len(dayActs) :
            LET aStart == toMinutes(dayActs[i].start)
                aEnd == aStart + dayActs[i].durationMins
            IN  cStart < aEnd /\ aStart <= cStart

hasConflict(list, candidate, excludeId) ==
    LET dayActs == SelectSeq(list, LAMBDA a : a.day = candidate.day /\ a.id # excludeId)
        cStart == toMinutes(candidate.start)
        cEnd == cStart + candidate.durationMins
    IN  \E i \in 1..Len(dayActs) :
            LET aStart == toMinutes(dayActs[i].start)
                aEnd == aStart + dayActs[i].durationMins
            IN  cStart < aEnd /\ aStart < cEnd

----------------------------------------------------------------------------
(* Pointer position to minutes *)

\* The bounding rectangle of the day track the pointer is over: 72 usable
\* pixels, a quarter of an hour each.
Track == [top |-> 0, height |-> 88]
\* Pointer positions: 12:00 and the bottom of the usable track.
PointerYs == {36, 80}

\* getMinutesFromElement measuring from the element's edges, without the
\* 8 px of padding.
getMinutesFromElementNoPadding(clientY, rect) ==
    LET usableHeight == Max2(1, rect.height)
        totalMinutes == (endHour - startHour) * 60
        yc == clamp(clientY - rect.top, 0, usableHeight)
    IN  startHour * 60
        + MathRound(yc * totalMinutes, usableHeight * MIN_SLOT_MINUTES) * MIN_SLOT_MINUTES

\* ratio * totalMinutes is the fraction yc * totalMinutes / usableHeight, so
\* roundToStep of it is the rounded quotient by usableHeight * step.
getMinutesFromElement(clientY, rect) ==
    LET usableTop == rect.top + PADDING_TOP
        usableHeight == Max2(1, rect.height - (PADDING_TOP + PADDING_BOTTOM))
        y == clientY - usableTop
        totalMinutes == (endHour - startHour) * 60
        yc == clamp(y, 0, usableHeight)
    IN  startHour * 60
        + MathRound(yc * totalMinutes, usableHeight * MIN_SLOT_MINUTES) * MIN_SLOT_MINUTES

----------------------------------------------------------------------------
(* Inputs *)

\* Drag payloads of the activity browser: { title, category, durationMins,
\* mood, notes }.  A duration of 0 is a payload with a missing field.
PayloadDurations == {0, 5, 1500}
Payloads == {[title |-> "Hike", category |-> "outdoor", durationMins |-> d,
              mood |-> "energetic", notes |-> ""] : d \in PayloadDurations}

\* What the edit dialog's start and duration fields can be set to.
EditStarts == {<<"1", "0", ":", "0", "7">>}
EditDurations == {0, 725}

\* title.trim()
Trim(t) == IF t = "  " THEN "" ELSE t

\* The lists WeekendSchedule can be mounted with: free of overlap, inside
\* the day window, on the slot grid.
Act1 == [id |-> 1, title |-> "Brunch", category |-> "food", day |-> "saturday",
         start |-> T1100, durationMins |-> 60, mood |-> "social", notes |-> ""]
Act2 == [id |-> 2, title |-> "Walk", category |-> "outdoor", day |-> "saturday",
         start |-> T1200, durationMins |-> 15, mood |-> NoMood, notes |-> "park"]
InitialLists == {<<>>, <<Act1>>, <<Act1, Act2>>}

RangeOf(list) == {list[i] : i \in 1..Len(list)}

\* The drafts the dialog can submit: an activity of the list (or one that is
\* no longer in it) with its start, duration and day fields as they were or
\* replaced.  The other fields are carried along unedited.
StaleActivity(id) == [Act1 EXCEPT !.id = id]

EditDrafts(list) ==
    UNION {{[base EXCEPT !.start = st, !.durationMins = du, !.day = dy] :
                st \in EditStarts \cup {base.start},
                du \in EditDurations \cup {base.durationMins},
                dy \in Days} : base \in RangeOf(list)}
    \cup {StaleActivity(id) : id \in Ids \ IdsOf(list)}

----------------------------------------------------------------------------
(* Page: themes and the plans kept in localStorage *)

Themes == {"lazy", "adventurous", "family"}

\* The theme a Page starts with, before any stored theme is read.
DefaultTheme == "lazy"

\* JSON.stringify of one activity: a property whose value is undefined is
\* left out of the text.
JsonOfActivity(a) ==
    [f \in (IF a.mood = NoMood THEN DOMAIN a \ {"mood"} ELSE DOMAIN a) |-> a[f]]

\* JSON.stringify(activities)
JsonStringify(list) == [i \in 1..Len(list) |-> JsonOfActivity(list[i])]

ActivityFields == {"id", "title", "category", "day", "start", "durationMins",
                   "mood", "notes"}

\* JSON.parse of the text, read as WeekendActivity[]: a property the text
\* does not hold reads as undefined.
JsonParse(json) ==
    [i \in 1..Len(json) |->
        [f \in ActivityFields |-> IF f \in DOMAIN json[i] THEN json[i][f] ELSE NoMood]]

\* One localStorage item: getItem gives null (present is FALSE) or the text.
NoItem == [present |-> FALSE, json |-> <<>>]
ItemOf(list) == [present |-> TRUE, json |-> JsonStringify(list)]

\* storageKey(theme) names the item; the model indexes the items by theme.
storageKey(t) == t

\* localStorage.setItem(storageKey(t), JSON.stringify(list))
SetItem(store, t, list) == [store EXCEPT ![storageKey(t)] = ItemOf(list)]

\* The auto-save effect: it runs when the Page's list or the theme is a new
\* value and writes the Page's list under the current theme.
AutoSave(store, t, list) == SetItem(store, t, list)

\* What a page load does to the stored plans.  The Page mounts with the
\* default theme and an empty list, so the auto-save effect writes the empty
\* list under the default theme; the mount effects then adopt the theme t
\* kept under weekendly.theme, and the auto-save effect runs again for it.
PageLoadStore(store, t) ==
    AutoSave(AutoSave(store, DefaultTheme, <<>>), t, <<>>)

\* The stored plans after the first load, in a browser that held none.
FirstLoad == PageLoadStore([t \in Themes |-> NoItem], DefaultTheme)

----------------------------------------------------------------------------
(* Page: handleScheduleChange, reached through WeekendSchedule's onChange effect *)

\* Room in the bounded undo history for one more change of the list.
CanRecord == ~hasOnChange \/ Len(past) \div 3 < MaxChanges

\* The Page renders WeekendSchedule twice with the same key, list and
\* callback, in the stacked layout and in the split panes, and CSS hides one
\* of them; both are mounted and both run the onChange effect.  The model is
\* of a window wide enough for the split panes: the user acts on the second
\* instance, whose effect runs last, so the list the Page adopts is its list.
\* When the callback has a new identity, or both instances are remounted,
\* each effect calls handleScheduleChange once with the list in the Page as
\* the callback's `activities`.
BothNotify(list) == <<list, list>>

\* The effect "if (onChange) onChange(activities)" runs when the list state
\* is a new array.  handleScheduleChange pushes the Page's list and adopts
\* the new one; that gives the callback a new identity, so the effect runs
\* once more in both instances and each pushes the list just adopted.
NotifyPage(list) ==
    IF hasOnChange
    THEN /\ past' = past \o <<pageActivities>> \o BothNotify(list)
         /\ future' = <<>>
         /\ pageActivities' = list
         /\ stored' = AutoSave(stored, theme, list)
         /\ UNCHANGED <<scheduleKey, theme>>
    ELSE UNCHANGED pageVars

----------------------------------------------------------------------------
(* WeekendSchedule: handlers *)

\* What an updater passed to setActivities returns: the array it was given
\* (React then keeps the state and runs no effect) or a new array.
ReturnPrev(prev) == [list |-> prev, isPrev |-> TRUE]
ReturnNew(list) == [list |-> list, isPrev |-> FALSE]

\* setActivities(updater): the list becomes what the updater returned; when
\* that is a new array the onChange effect runs.
SetActivities(result) ==
    /\ activities' = result.list
    /\ IF result.isPrev THEN UNCHANGED pageVars ELSE NotifyPage(result.list)

\* prev.find((a) => a.id === id), as an index; 0 when there is none.
FindIndex(list, id) ==
    IF id \in IdsOf(list)
    THEN CHOOSE i \in 1..Len(list) :
            list[i].id = id /\ \A j \in 1..(i - 1) : list[j].id # id
    ELSE 0

\* prev.map((a) => (a.id === id ? updated : a))
ReplaceById(list, id, updated) ==
    [i \in 1..Len(list) |-> IF list[i].id = id THEN updated ELSE list[i]]

\* The start a drop at `mins` gives an activity of this duration.
DropStart(mins, duration) ==
    toTimeString(clamp(mins, startHour * 60, endHour * 60 - duration))

\* A faulty variant of MovedActivity: the activity is rebuilt field by field
\* and loses its mood and notes.
MovedActivityNoSpread(found, day, mins) ==
    [id |-> found.id, title |-> found.title, category |-> found.category,
     durationMins |-> found.durationMins, day |-> day,
     start |-> DropStart(mins, found.durationMins), mood |-> NoMood, notes |-> ""]

\* handleDrop, internalId branch: move an existing activity.
\* { ...found, day, start: startStr }
MovedActivity(found, day, mins) ==
    [found EXCEPT !.day = day, !.start = DropStart(mins, found.durationMins)]

MoveUpdater(prev, internalId, day, mins) ==
    LET k == FindIndex(prev, internalId)
    IN  IF k = 0
        THEN ReturnPrev(prev)
        ELSE LET updated == MovedActivity(prev[k], day, mins)
             IN  IF hasConflict(prev, updated, internalId)
                 THEN ReturnPrev(prev)
                 ELSE ReturnNew(ReplaceById(prev, internalId, updated))

HandleDropMove(internalId, day, clientY) ==
    /\ CanRecord
    /\ SetActivities(MoveUpdater(activities, internalId, day,
                                 getMinutesFromElement(clientY, Track)))
    /\ UNCHANGED hasOnChange

\* handleDrop, external branch: insert a payload of the activity browser.
PayloadDuration(d) == Max2(MIN_SLOT_MINUTES, roundToStep(d, MIN_SLOT_MINUTES))

NewActivity(id, payload, day, mins) ==
    LET duration == PayloadDuration(payload.durationMins)
    IN  [id |-> id, title |-> payload.title, category |-> payload.category,
         durationMins |-> duration, day |-> day, start |-> DropStart(mins, duration),
         mood |-> payload.mood, notes |-> payload.notes]

\* !payload.title || !payload.category || !payload.durationMins
MissingFields(payload) ==
    payload.title = "" \/ payload.category = "" \/ payload.durationMins = 0

InsertUpdater(prev, newAct) ==
    IF hasConflict(prev, newAct, NoId)
    THEN ReturnPrev(prev)
    ELSE ReturnNew(Append(prev, newAct))

\* The id universe is bounded: a drop that is committed needs an id that is
\* not in use, one that is rejected does not.
HandleDropInsert(payload, day, clientY) ==
    LET mins == getMinutesFromElement(clientY, Track)
        result == InsertUpdater(activities, NewActivity(NextId, payload, day, mins))
    IN  /\ CanRecord
        /\ UNCHANGED hasOnChange
        /\ IF MissingFields(payload)
           THEN UNCHANGED <<activities, pageVars>>
           ELSE /\ result.isPrev \/ HasFreshId
                /\ SetActivities(result)

\* saveEdit: the draft, cleaned.
Cleaned(editDraft) ==
    [editDraft EXCEPT
        !.title = IF Trim(editDraft.title) = "" THEN "Untitled" ELSE Trim(editDraft.title),
        !.durationMins = Max2(MIN_SLOT_MINUTES,
                              roundToStep(editDraft.durationMins, MIN_SLOT_MINUTES)),
        !.start = normalizeTime(editDraft.start)]

\* A faulty variant of SaveEditUpdater: on a conflict the new duration is
\* written all the same.
SaveEditUpdaterPartial(prev, cleaned) ==
    IF hasConflict(prev, cleaned, cleaned.id)
    THEN ReturnNew([i \in 1..Len(prev) |->
                        IF prev[i].id = cleaned.id
                        THEN [prev[i] EXCEPT !.durationMins = cleaned.durationMins]
                        ELSE prev[i]])
    ELSE ReturnNew(ReplaceById(prev, cleaned.id, cleaned))

SaveEditUpdater(prev, cleaned) ==
    IF hasConflict(prev, cleaned, cleaned.id)
    THEN ReturnPrev(prev)
    ELSE ReturnNew(ReplaceById(prev, cleaned.id, cleaned))

\* openEdit, the dialog's field changes and saveEdit.
SaveEdit(editDraft) ==
    /\ CanRecord
    /\ SetActivities(SaveEditUpdater(activities, Cleaned(editDraft)))
    /\ UNCHANGED hasOnChange

\* A faulty variant of RemoveById: the first activity goes, whatever its id.
RemoveHead(list, id) == IF Len(list) = 0 THEN list ELSE Tail(list)

\* prev.filter((a) => a.id !== id)
RemoveById(list, id) == SelectSeq(list, LAMBDA a : a.id # id)

RemoveUpdater(prev, id) == ReturnNew(RemoveById(prev, id))

\* removeActivity, from an item of the timeline or from the dialog's Remove.
RemoveActivity(id) ==
    /\ CanRecord
    /\ SetActivities(RemoveUpdater(activities, id))
    /\ UNCHANGED hasOnChange

----------------------------------------------------------------------------
(* PersistenceManager: its stores before any call *)

SettingKeys == {"autoSave", "timeFormat"}

\* JSON values a setting can have, and null.
JsBoolean(b) == [type |-> "boolean", bool |-> b, num |-> 0, str |-> <<>>]
JsNumber(n) == [type |-> "number", bool |-> FALSE, num |-> n, str |-> <<>>]
JsString(t) == [type |-> "string", bool |-> FALSE, num |-> 0, str |-> t]
JsNull == [type |-> "null", bool |-> FALSE, num |-> 0, str |-> <<>>]

\* A record the settings store does not hold; an item localStorage does not hold.
NoRecord == [present |-> FALSE, value |-> JsNull]
NoText == [present |-> FALSE, text |-> <<>>]

\* The object stores init creates on upgrade: plans (keyPath id), activities
\* (keyPath id, index planId) and settings (keyPath key), all empty.
EmptyIdb == [plans |-> {}, activities |-> {}, settings |-> [k \in SettingKeys |-> NoRecord]]

\* localStorage without any item of the manager; full says that setItem
\* throws (the quota is used up).
EmptyLs == [plans |-> {}, settings |-> [k \in SettingKeys |-> NoText], full |-> FALSE]

NoReply == [op |-> "", error |-> "", id |-> 0]

\* The module of the manager is not loaded.
\* The tabs, the hooks, the debounce timers and the service worker before
\* anything used them.
IdleTab == [busy |-> FALSE, theme |-> "", list |-> <<>>, id |-> 0, version |-> 0]
NoTabs == [t \in {1, 2} |-> IdleTab]
NoView == [acts |-> <<>>, itemHeights |-> <<>>, scrollOffset |-> 0]
NoTimers == [pending |-> {}, log |-> <<>>]
NoResponse == [url |-> "", status |-> 0, body |-> ""]
NoWorker == [state |-> "parsed", static |-> {}, dynamic |-> {}, fetches |-> 0,
             response |-> NoResponse]
AuxUnused == tabs = NoTabs /\ view = NoView /\ timers = NoTimers /\ sw = NoWorker

ManagerUnused ==
    /\ db = FALSE
    /\ openRequest = "none"
    /\ idb = EmptyIdb
    /\ ls = EmptyLs
    /\ clock = 0
    /\ reply = NoReply

----------------------------------------------------------------------------
(* WeekendSchedule on its own: mounted with a list and no onChange *)

InitSchedule ==
    /\ activities \in InitialLists
    /\ hasOnChange = FALSE
    /\ pageActivities = <<>>
    /\ past = <<>>
    /\ future = <<>>
    /\ scheduleKey = 0
    /\ theme = DefaultTheme
    /\ stored = [t \in Themes |-> NoItem]
    /\ call = NoCall
    /\ ret = NoRet
    /\ ManagerUnused
    /\ AuxUnused

NextSchedule ==
    /\ \/ \E id \in Ids, d \in Days, y \in PointerYs : HandleDropMove(id, d, y)
       \/ \E p \in Payloads, d \in Days, y \in PointerYs : HandleDropInsert(p, d, y)
       \/ \E draft \in EditDrafts(activities) : SaveEdit(draft)
       \/ \E id \in Ids : RemoveActivity(id)
    /\ UNCHANGED <<callVars, storeVars, auxVars>>

SpecSchedule == InitSchedule /\ [][NextSchedule]_vars

----------------------------------------------------------------------------
(* Page: adding a catalog activity *)

\* Number(s) for the texts split(":") yields: "" is 0, a signed run of digits
\* its value, anything else NaN.
ToNumber(s) ==
    IF Len(s) = 0 THEN 0
    ELSE IF AllDigits(s) THEN ParseInt(s)
    ELSE IF s[1] \in {"-", "+"} /\ Len(s) >= 2 /\ AllDigits(Tail(s)) THEN ParseInt(s)
    ELSE NaN

\* The toMinutes local to pickNextStartTime: h * 60 + m, with Number.
PickToMinutes(t) ==
    LET parts == SplitColon(t, 1, <<>>)
        h == ToNumber(parts[1])
        m == IF Len(parts) >= 2 THEN ToNumber(parts[2]) ELSE NaN
    IN  IF h = NaN \/ m = NaN THEN NaN ELSE h * 60 + m

\* Math.ceil(n / d) * d for d > 0
CeilTo(n, d) == (0 - ((0 - n) \div d)) * d

SetMax(S) == CHOOSE x \in S : \A y \in S : y <= x

pickNextStartTime(existing) ==
    LET satActs == SelectSeq(existing, LAMBDA a : a.day = "saturday")
        maxEnd == SetMax({7 * 60} \cup
                         {PickToMinutes(satActs[i].start) + satActs[i].durationMins :
                            i \in 1..Len(satActs)})
        rounded == CeilTo(maxEnd, 30)
        clamped == Min2(rounded, 22 * 60 + 30)
    IN  IF Len(satActs) = 0 THEN <<"1", "0", ":", "0", "0">>
        ELSE PadStart2(NumToStr(clamped \div 60)) \o <<":">>
             \o PadStart2(NumToStr(JsRem(clamped, 60)))

\* Catalog items of the activity browser, and what its add dialog passes on:
\* a day and a start text, either of which may be missing.
NoDay == ""
NoStart == <<>>
CatalogDurations == {10, 100}
Catalog == {[title |-> "Kayak", description |-> "river", category |-> "Adventure",
             durationMin |-> d, moods |-> {"playful"}] : d \in CatalogDurations}
AddStarts == {T1200, NoStart}
\* handleDropInternal passes the catalog item alone; handleConfirmAdd adds
\* the dialog's day and the text of its time field, which may be empty.
AddRequests == {[day |-> NoDay, start |-> NoStart]}
               \cup {[day |-> d, start |-> t] : d \in Days, t \in AddStarts}

categoryMap(cat) ==
    CASE cat = "Adventure" -> "outdoor"
      [] cat = "Family" -> "other"
      [] OTHER -> "home"

\* The moods arrive lower-cased.
moodMap(moods) ==
    IF moods \cap {"energetic", "playful"} # {} THEN "energetic"
    ELSE IF moods \cap {"social"} # {} THEN "social"
    ELSE IF moods \cap {"calm", "cozy"} # {} THEN "chill"
    ELSE IF moods \cap {"curious", "creative"} # {} THEN "focus"
    ELSE NoMood

\* A faulty variant of CatalogDuration: the floor of 15 without the grid.
CatalogDurationRaw(d) == Max2(15, d)

\* Math.max(15, a.durationMin - (a.durationMin % 15))
CatalogDuration(d) == Max2(15, d - JsRem(d, 15))

NewItem(id, a, day, start, existing) ==
    [id |-> id, title |-> a.title, category |-> categoryMap(a.category),
     day |-> IF day = NoDay THEN "saturday" ELSE day,
     start |-> IF start = NoStart THEN pickNextStartTime(existing) ELSE start,
     durationMins |-> CatalogDuration(a.durationMin),
     mood |-> moodMap(a.moods), notes |-> a.description]

\* addFromBrowser: the item is appended to the Page's list and both instances
\* of WeekendSchedule are remounted on it; each mount runs the onChange
\* effect, which pushes the merged list once more.
AddFromBrowser(a, day, start) ==
    /\ hasOnChange
    /\ CanRecord
    /\ HasFreshId
    /\ LET merged == Append(pageActivities,
                            NewItem(FreshId, a, day, start, pageActivities))
       IN  /\ past' = past \o <<pageActivities>> \o BothNotify(merged)
           /\ future' = <<>>
           /\ pageActivities' = merged
           /\ scheduleKey' = scheduleKey + 1
           /\ activities' = merged
           /\ stored' = AutoSave(stored, theme, merged)
    /\ UNCHANGED <<hasOnChange, theme>>

----------------------------------------------------------------------------
(* The Page with its WeekendSchedule *)

\* After the first render: the list is empty and the mount of each instance
\* of WeekendSchedule has run the onChange effect once.
Init ==
    /\ activities = <<>>
    /\ hasOnChange = TRUE
    /\ pageActivities = <<>>
    /\ past = BothNotify(<<>>)
    /\ future = <<>>
    /\ scheduleKey = 0
    /\ theme = DefaultTheme
    /\ stored = FirstLoad
    /\ call = NoCall
    /\ ret = NoRet
    /\ ManagerUnused
    /\ AuxUnused

Next ==
    /\ \/ \E id \in Ids, d \in Days, y \in PointerYs : HandleDropMove(id, d, y)
       \/ \E p \in Payloads, d \in Days, y \in PointerYs : HandleDropInsert(p, d, y)
       \/ \E draft \in EditDrafts(activities) : SaveEdit(draft)
       \/ \E id \in Ids : RemoveActivity(id)
       \/ \E a \in Catalog, r \in AddRequests : AddFromBrowser(a, r.day, r.start)
    /\ UNCHANGED <<callVars, storeVars, auxVars>>

Spec == Init /\ [][Next]_vars

----------------------------------------------------------------------------
(* Page: undo, redo, clear, themes, saved plans and a new session *)

\* undo.  The updater of setPast takes the last entry, puts the Page's list
\* in front of `future`, adopts the entry and remounts both instances of
\* WeekendSchedule; their mount effects then run handleScheduleChange, which
\* pushes the adopted list and empties `future`.  The auto-save effect writes
\* the adopted list.
UndoTarget == past[Len(past)]

Undo ==
    /\ hasOnChange
    /\ CanRecord
    /\ IF Len(past) = 0
       THEN UNCHANGED <<activities, pageVars>>
       ELSE LET prev == UndoTarget
            IN  /\ past' = SubSeq(past, 1, Len(past) - 1) \o BothNotify(prev)
                /\ future' = <<>>
                /\ pageActivities' = prev
                /\ activities' = prev
                /\ scheduleKey' = scheduleKey + 1
                /\ stored' = AutoSave(stored, theme, prev)
                /\ UNCHANGED theme
    /\ UNCHANGED <<hasOnChange, callVars, storeVars, auxVars>>

\* redo, with the same remount and effects as undo.
Redo ==
    /\ hasOnChange
    /\ CanRecord
    /\ IF Len(future) = 0
       THEN UNCHANGED <<activities, pageVars>>
       ELSE LET next == future[1]
            IN  /\ past' = past \o <<pageActivities>> \o BothNotify(next)
                /\ future' = <<>>
                /\ pageActivities' = next
                /\ activities' = next
                /\ scheduleKey' = scheduleKey + 1
                /\ stored' = AutoSave(stored, theme, next)
                /\ UNCHANGED theme
    /\ UNCHANGED <<hasOnChange, callVars, storeVars, auxVars>>

\* clearSchedule
ClearSchedule ==
    /\ hasOnChange
    /\ CanRecord
    /\ past' = past \o <<pageActivities>> \o BothNotify(<<>>)
    /\ future' = <<>>
    /\ pageActivities' = <<>>
    /\ activities' = <<>>
    /\ scheduleKey' = scheduleKey + 1
    /\ stored' = AutoSave(stored, theme, <<>>)
    /\ UNCHANGED <<hasOnChange, theme, callVars, storeVars, auxVars>>

\* handleThemeChange: setTheme(t); the auto-save effect depends on the theme
\* and writes the Page's list under the new one.
HandleThemeChange(t) ==
    /\ hasOnChange
    /\ theme' = t
    /\ stored' = IF t = theme THEN stored ELSE AutoSave(stored, t, pageActivities)
    /\ UNCHANGED <<activities, hasOnChange, pageActivities, past, future, scheduleKey,
                   callVars, storeVars, auxVars>>

\* savePlan
SavePlan ==
    /\ hasOnChange
    /\ stored' = SetItem(stored, theme, pageActivities)
    /\ UNCHANGED <<activities, hasOnChange, pageActivities, past, future, scheduleKey,
                   theme, callVars, storeVars, auxVars>>

\* loadPlan
LoadPlan ==
    /\ hasOnChange
    /\ CanRecord
    /\ LET item == stored[storageKey(theme)]
           parsed == JsonParse(item.json)
       IN  IF ~item.present
           THEN UNCHANGED <<activities, pageVars>>
           ELSE /\ past' = past \o <<pageActivities>> \o BothNotify(parsed)
                /\ future' = <<>>
                /\ pageActivities' = parsed
                /\ activities' = parsed
                /\ scheduleKey' = scheduleKey + 1
                /\ stored' = AutoSave(stored, theme, parsed)
                /\ UNCHANGED theme
    /\ UNCHANGED <<hasOnChange, callVars, storeVars, auxVars>>

\* A new session: the page is loaded again, without a share link.  The
\* Page's state starts over; localStorage is what the last session left,
\* and weekendly.theme holds that session's theme.
PageLoad ==
    /\ hasOnChange
    /\ activities' = <<>>
    /\ pageActivities' = <<>>
    /\ past' = BothNotify(<<>>)
    /\ future' = <<>>
    /\ scheduleKey' = 0
    /\ theme' = theme
    /\ stored' = PageLoadStore(stored, theme)
    /\ UNCHANGED <<hasOnChange, callVars, storeVars, auxVars>>

\* The schedule changes of this specification: one request of each kind the
\* user can make, on either day.
PlanPayload == [title |-> "Hike", category |-> "outdoor", durationMins |-> 5,
                mood |-> "energetic", notes |-> ""]
PlanPointerY == 36
PlanCatalogItem == [title |-> "Kayak", description |-> "river", category |-> "Adventure",
                    durationMin |-> 100, moods |-> {"playful"}]
PlanDrafts(list) == {[a EXCEPT !.durationMins = 725] : a \in RangeOf(list)}

ScheduleChange ==
    \/ /\ \/ \E d \in Days : HandleDropInsert(PlanPayload, d, PlanPointerY)
          \/ \E id \in Ids, d \in Days : HandleDropMove(id, d, PlanPointerY)
          \/ \E draft \in PlanDrafts(activities) : SaveEdit(draft)
          \/ \E id \in Ids : RemoveActivity(id)
          \/ AddFromBrowser(PlanCatalogItem, NoDay, NoStart)
       /\ UNCHANGED <<callVars, storeVars, auxVars>>
    \/ ClearSchedule

NextPlans ==
    \/ ScheduleChange
    \/ Undo
    \/ Redo
    \/ ClearSchedule
    \/ \E t \in Themes : HandleThemeChange(t)
    \/ SavePlan
    \/ LoadPlan
    \/ PageLoad

SpecPlans == Init /\ [][NextPlans]_vars

----------------------------------------------------------------------------
(* PersistenceManager: values and plans *)

\* What JavaScript takes for false in "x || null" and "x ? a : b".
Falsy(v) ==
    \/ v.type = "null"
    \/ v.type = "boolean" /\ ~v.bool
    \/ v.type = "number" /\ v.num = 0
    \/ v.type = "string" /\ v.str = <<>>

\* x || null
OrNull(v) == IF Falsy(v) THEN JsNull ELSE v

\* JSON.stringify(value) as text
JsonText(v) ==
    IF v.type = "boolean"
    THEN (IF v.bool THEN <<"t", "r", "u", "e">> ELSE <<"f", "a", "l", "s", "e">>)
    ELSE IF v.type = "number" THEN NumToStr(v.num)
    ELSE IF v.type = "string" THEN <<"\"">> \o v.str \o <<"\"">>
    ELSE <<"n", "u", "l", "l">>

\* JSON.parse(text) of such a text
JsonValue(t) ==
    IF t[1] = "t" THEN JsBoolean(TRUE)
    ELSE IF t[1] = "f" THEN JsBoolean(FALSE)
    ELSE IF t[1] = "n" THEN JsNull
    ELSE IF t[1] = "\"" THEN JsString(SubSeq(t, 2, Len(t) - 1))
    ELSE JsNumber(ParseInt(t))

\* savePlan: the draft with a fresh id, createdAt = updatedAt = now, version 1.
fullPlan(plan, id, now) ==
    [id |-> id, theme |-> plan.theme, activities |-> plan.activities,
     createdAt |-> now, updatedAt |-> now, version |-> 1, isTemplate |-> plan.isTemplate]

\* { ...existing, ...updates }: the fields the patch carries replace the
\* plan's.
Merge(plan, updates) ==
    [f \in DOMAIN plan |-> IF f \in updates.fields THEN updates[f] ELSE plan[f]]

\* JSON.stringify(plan) and JSON.parse of it.
JsonOfPlan(plan) == [plan EXCEPT !.activities = JsonStringify(plan.activities)]
PlanOfJson(json) == [json EXCEPT !.activities = JsonParse(json.activities)]

\* getPlan's null
NullPlan == [id |-> 0, theme |-> "", activities |-> <<>>, createdAt |-> 0,
             updatedAt |-> 0, version |-> 0, isTemplate |-> FALSE]

PlanWithId(plans, id) == CHOOSE q \in plans : q.id = id

\* The plans in key order.
RECURSIVE SortedById(_)
SortedById(plans) ==
    IF plans = {} THEN <<>>
    ELSE LET first == CHOOSE q \in plans : \A r \in plans : q.id <= r.id
         IN  <<first>> \o SortedById(plans \ {first})

----------------------------------------------------------------------------
(* PersistenceManager: the IndexedDB implementations *)

\* { ...activity, planId }
IndexRecord(a, planId) ==
    [f \in DOMAIN a \cup {"planId"} |-> IF f = "planId" THEN planId ELSE a[f]]

\* activitiesStore.add of each activity of the list.  The store's key is the
\* activity's id: add fails when a record has that id already, no handler
\* takes the error, and the transaction aborts.
AddActivities(records, list, planId) ==
    [aborted |-> \/ \E i \in 1..Len(list) : \E r \in records : r.id = list[i].id
                 \/ \E i, j \in 1..Len(list) : i < j /\ list[i].id = list[j].id,
     records |-> records \cup {IndexRecord(list[i], planId) : i \in 1..Len(list)}]

\* What a call leaves: the store, and the error it rejected with ("" when it
\* resolved).  A transaction that aborts after the promise resolved leaves
\* the store as it was.
Settled(store, error) == [store |-> store, error |-> error]

savePlanToIndexedDB(store, plan) ==
    IF \E q \in store.plans : q.id = plan.id
    THEN Settled(store, "ConstraintError")
    ELSE LET added == AddActivities(store.activities, plan.activities, plan.id)
         IN  IF added.aborted
             THEN Settled(store, "")
             ELSE Settled([store EXCEPT !.plans = @ \cup {plan},
                                        !.activities = added.records], "")

\* A faulty updatePlanInIndexedDB: without a stored plan it puts the patch as
\* a new row.
updatePlanInIndexedDBUpsert(store, id, updates, now) ==
    LET existingPlan == IF \E q \in store.plans : q.id = id
                        THEN PlanWithId(store.plans, id)
                        ELSE [NullPlan EXCEPT !.id = id]
        updatedPlan == [Merge(existingPlan, updates) EXCEPT
                           !.updatedAt = now, !.version = existingPlan.version + 1]
        put == {q \in store.plans : q.id # updatedPlan.id} \cup {updatedPlan}
        kept == {r \in store.activities : r.planId # id}
        added == AddActivities(kept, updates.activities, id)
    IN  IF "activities" \in updates.fields
        THEN (IF added.aborted
              THEN Settled(store, "")
              ELSE Settled([store EXCEPT !.plans = put, !.activities = added.records], ""))
        ELSE Settled([store EXCEPT !.plans = put], "")

updatePlanInIndexedDB(store, id, updates, now) ==
    IF ~\E q \in store.plans : q.id = id
    THEN Settled(store, "Plan not found")
    ELSE LET existingPlan == PlanWithId(store.plans, id)
             updatedPlan == [Merge(existingPlan, updates) EXCEPT
                                !.updatedAt = now, !.version = existingPlan.version + 1]
             put == {q \in store.plans : q.id # updatedPlan.id} \cup {updatedPlan}
             kept == {r \in store.activities : r.planId # id}
             added == AddActivities(kept, updates.activities, id)
         IN  IF "activities" \in updates.fields
             THEN (IF added.aborted
                   THEN Settled(store, "")
                   ELSE Settled([store EXCEPT !.plans = put, !.activities = added.records], ""))
             ELSE Settled([store EXCEPT !.plans = put], "")

\* request.result || null
getPlanFromIndexedDB(store, id) ==
    IF \E q \in store.plans : q.id = id THEN PlanWithId(store.plans, id) ELSE NullPlan

getAllPlansFromIndexedDB(store) == SortedById(store.plans)

\* A faulty deletePlanFromIndexedDB: it deletes the row and leaves the
\* activity records.
deletePlanFromIndexedDBRowOnly(store, id) ==
    Settled([store EXCEPT !.plans = {q \in @ : q.id # id}], "")

deletePlanFromIndexedDB(store, id) ==
    Settled([store EXCEPT !.plans = {q \in @ : q.id # id},
                          !.activities = {r \in @ : r.planId # id}], "")

saveSettingsToIndexedDB(store, key, value) ==
    Settled([store EXCEPT !.settings[key] = [present |-> TRUE, value |-> value]], "")

\* request.result?.value || null
getSettingsFromIndexedDB(store, key) ==
    IF store.settings[key].present THEN OrNull(store.settings[key].value) ELSE JsNull

getStatsFromIndexedDB(store) ==
    [totalPlans |-> Cardinality(store.plans),
     totalActivities |-> Cardinality(store.activities),
     storageUsed |-> 0]

----------------------------------------------------------------------------
(* PersistenceManager: the localStorage implementations *)

\* The item weekendly.plan.<key>: the key and the JSON text of the plan.
PlanItem(key, plan) ==
    LET json == JsonOfPlan(plan)
    IN  [f \in DOMAIN json \cup {"key"} |-> IF f = "key" THEN key ELSE json[f]]

PlanOfItem(item) == PlanOfJson([f \in DOMAIN item \ {"key"} |-> item[f]])

ItemWithKey(items, key) == CHOOSE q \in items : q.key = key

\* The items in key order.
RECURSIVE SortedByKey(_)
SortedByKey(items) ==
    IF items = {} THEN <<>>
    ELSE LET first == CHOOSE q \in items : \A r \in items : q.key <= r.key
         IN  <<first>> \o SortedByKey(items \ {first})

\* A faulty savePlanToLocalStorage: without the try/catch, what setItem
\* throws is what the call rejects with.
savePlanToLocalStorageUncaught(store, plan) ==
    IF store.full
    THEN Settled(store, "QuotaExceededError")
    ELSE Settled([store EXCEPT !.plans = {q \in @ : q.key # plan.id}
                                          \cup {PlanItem(plan.id, plan)}], "")

savePlanToLocalStorage(store, plan) ==
    IF store.full
    THEN Settled(store, "Failed to save plan to localStorage")
    ELSE Settled([store EXCEPT !.plans = {q \in @ : q.key # plan.id}
                                          \cup {PlanItem(plan.id, plan)}], "")

updatePlanInLocalStorage(store, id, updates, now) ==
    IF ~\E q \in store.plans : q.key = id
    THEN Settled(store, "Plan not found")
    ELSE LET existing == ItemWithKey(store.plans, id)
             plan == PlanOfItem(existing)
             updatedPlan == [Merge(plan, updates) EXCEPT !.updatedAt = now]
         IN  IF store.full
             THEN Settled(store, "QuotaExceededError")
             ELSE Settled([store EXCEPT
                            !.plans = (@ \ {existing}) \cup {PlanItem(id, updatedPlan)}], "")

getPlanFromLocalStorage(store, id) ==
    IF \E q \in store.plans : q.key = id
    THEN PlanOfItem(ItemWithKey(store.plans, id)) ELSE NullPlan

\* The items whose key starts with weekendly.plan.plan_, in key order.
getAllPlansFromLocalStorage(store) ==
    LET sorted == SortedByKey(store.plans)
    IN  [i \in 1..Len(sorted) |-> PlanOfItem(sorted[i])]

deletePlanFromLocalStorage(store, id) ==
    Settled([store EXCEPT !.plans = {q \in @ : q.key # id}], "")

\* localStorage.setItem("weekendly.settings." + key, JSON.stringify(value))
saveSettingsToLocalStorage(store, key, value) ==
    IF store.full
    THEN Settled(store, "QuotaExceededError")
    ELSE Settled([store EXCEPT !.settings[key] = [present |-> TRUE, text |-> JsonText(value)]], "")

\* value ? JSON.parse(value) : null
getSettingsFromLocalStorage(store, key) ==
    LET item == store.settings[key]
    IN  IF item.present /\ Len(item.text) > 0 THEN JsonValue(item.text) ELSE JsNull

RECURSIVE SumLengths(_)
SumLengths(plans) ==
    IF Len(plans) = 0 THEN 0 ELSE Len(Head(plans).activities) + SumLengths(Tail(plans))

getStatsFromLocalStorage(store) ==
    LET plans == getAllPlansFromLocalStorage(store)
    IN  [totalPlans |-> Len(plans), totalActivities |-> SumLengths(plans), storageUsed |-> 0]

----------------------------------------------------------------------------
(* PersistenceManager: the public methods, each dispatching on this.db *)

\* How many ticks of Date.now() a run takes; plan ids are ticks.
MaxClock == 3

\* The manager as the methods see it.
Manager == [db |-> db, idb |-> idb, ls |-> ls]

\* A method's outcome: the manager after it, the error it rejected with and
\* the plan id it concerns.
InIdb(m, settled, id) == [m |-> [m EXCEPT !.idb = settled.store], error |-> settled.error, id |-> id]
InLs(m, settled, id) == [m |-> [m EXCEPT !.ls = settled.store], error |-> settled.error, id |-> id]

\* A faulty savePlan: it writes to both backends.
savePlanToBoth(m, plan, now) ==
    LET full == fullPlan(plan, now, now)
    IN  [m |-> [m EXCEPT !.idb = savePlanToIndexedDB(m.idb, full).store,
                         !.ls = savePlanToLocalStorage(m.ls, full).store],
         error |-> "", id |-> now]

savePlan(m, plan, now) ==
    LET full == fullPlan(plan, now, now)
    IN  IF m.db
        THEN InIdb(m, savePlanToIndexedDB(m.idb, full), now)
        ELSE InLs(m, savePlanToLocalStorage(m.ls, full), now)

updatePlan(m, id, updates, now) ==
    IF m.db
    THEN InIdb(m, updatePlanInIndexedDB(m.idb, id, updates, now), id)
    ELSE InLs(m, updatePlanInLocalStorage(m.ls, id, updates, now), id)

getPlan(m, id) ==
    IF m.db THEN getPlanFromIndexedDB(m.idb, id) ELSE getPlanFromLocalStorage(m.ls, id)

getAllPlans(m) ==
    IF m.db THEN getAllPlansFromIndexedDB(m.idb) ELSE getAllPlansFromLocalStorage(m.ls)

deletePlan(m, id) ==
    IF m.db
    THEN InIdb(m, deletePlanFromIndexedDB(m.idb, id), id)
    ELSE InLs(m, deletePlanFromLocalStorage(m.ls, id), id)

\* plans.find(p => p.theme === theme && !p.metadata?.isTemplate) || null
getThemePlan(m, t) ==
    LET plans == getAllPlans(m)
        hits == {i \in 1..Len(plans) : plans[i].theme = t /\ ~plans[i].isTemplate}
    IN  IF hits = {} THEN NullPlan
        ELSE plans[CHOOSE i \in hits : \A j \in hits : i <= j]

\* A patch: the fields it carries and their values.
Patch(fields, t, list, version, now) ==
    [fields |-> fields, theme |-> t, activities |-> list, version |-> version,
     updatedAt |-> now]

saveThemePlan(m, t, list, now) ==
    LET existingPlan == getThemePlan(m, t)
    IN  IF existingPlan.id # 0
        THEN updatePlan(m, existingPlan.id,
                        Patch({"activities", "updatedAt", "version"}, t, list,
                              existingPlan.version + 1, now), now)
        ELSE savePlan(m, [theme |-> t, activities |-> list, isTemplate |-> FALSE], now)

saveSettings(m, key, value) ==
    IF m.db
    THEN InIdb(m, saveSettingsToIndexedDB(m.idb, key, value), 0)
    ELSE InLs(m, saveSettingsToLocalStorage(m.ls, key, value), 0)

getSettings(m, key) ==
    IF m.db THEN getSettingsFromIndexedDB(m.idb, key) ELSE getSettingsFromLocalStorage(m.ls, key)

getStats(m) ==
    IF m.db THEN getStatsFromIndexedDB(m.idb) ELSE getStatsFromLocalStorage(m.ls)

\* The plans, and each listed setting (null for one getSettings gave null
\* for: the export leaves it out).
exportAllData(m) ==
    [plans |-> getAllPlans(m), settings |-> [k \in SettingKeys |-> getSettings(m, k)]]

\* for (const plan of data.plans) await this.savePlan(plan), a tick apart
RECURSIVE ImportPlans(_, _, _)
ImportPlans(m, plans, now) ==
    IF Len(plans) = 0 THEN m
    ELSE ImportPlans(savePlan(m, Head(plans), now).m, Tail(plans), now + 1)

RECURSIVE ImportSettings(_, _, _)
ImportSettings(m, settings, keys) ==
    IF keys = {} THEN m
    ELSE LET k == CHOOSE key \in keys : TRUE
             next == IF settings[k] = JsNull THEN m ELSE saveSettings(m, k, settings[k]).m
         IN  ImportSettings(next, settings, keys \ {k})

importData(m, data, now) ==
    [m |-> ImportSettings(ImportPlans(m, data.plans, now), data.settings, SettingKeys),
     error |-> "", id |-> 0]

----------------------------------------------------------------------------
(* PersistenceManager: the calls of a session *)

StoreThemes == {"lazy", "family"}
StoreLists == {<<>>, <<Act1>>, <<Act1, Act2>>}

\* What savePlan is called with.
NewPlans ==
    {[theme |-> t, activities |-> list, isTemplate |-> b] :
        t \in StoreThemes, list \in StoreLists, b \in BOOLEAN}

PlanIds == 1..MaxClock

\* What updatePlan is called with: no field, an activity list (empty or
\* not), a version of its own, a theme.
Patches ==
    {Patch({}, "", <<>>, 0, 0),
     Patch({"activities"}, "", <<>>, 0, 0),
     Patch({"activities"}, "", <<Act2>>, 0, 0),
     Patch({"version"}, "", <<>>, 1, 0),
     Patch({"activities", "version"}, "", <<Act1>>, 7, 0),
     Patch({"theme"}, "family", <<>>, 0, 0)}

SettingValues == {JsBoolean(FALSE), JsNumber(0), JsString(<<>>), JsBoolean(TRUE), JsString(<<"2", "4", "h">>)}

\* An export of another store: one plan whose activity is Act1.
OtherExport ==
    [plans |-> <<[id |-> 1, theme |-> "lazy", activities |-> <<Act1>>, createdAt |-> 1,
                  updatedAt |-> 1, version |-> 3, isTemplate |-> FALSE]>>,
     settings |-> [k \in SettingKeys |-> IF k = "autoSave" THEN JsBoolean(TRUE) ELSE JsNull]]

\* The call settled: the stores it left, its reply, the ticks it took.
Settle(op, r, ticks) ==
    /\ idb' = r.m.idb
    /\ ls' = r.m.ls
    /\ clock' = clock + ticks
    /\ reply' = [op |-> op, error |-> r.error, id |-> r.id]
    /\ UNCHANGED <<db, openRequest>>
    /\ UNCHANGED <<activities, hasOnChange, pageVars, callVars, auxVars>>

\* request.onsuccess of indexedDB.open
OpenSucceeds ==
    /\ openRequest = "pending"
    /\ openRequest' = "success"
    /\ db' = TRUE
    /\ UNCHANGED <<idb, ls, clock, reply>>
    /\ UNCHANGED <<activities, hasOnChange, pageVars, callVars, auxVars>>

\* request.onerror of indexedDB.open
OpenFails ==
    /\ openRequest = "pending"
    /\ openRequest' = "error"
    /\ db' = db
    /\ UNCHANGED <<idb, ls, clock, reply>>
    /\ UNCHANGED <<activities, hasOnChange, pageVars, callVars, auxVars>>

CallSavePlan(plan) ==
    /\ clock < MaxClock
    /\ Settle("savePlan", savePlan(Manager, plan, clock + 1), 1)

CallUpdatePlan(id, updates) ==
    /\ clock < MaxClock
    /\ Settle("updatePlan", updatePlan(Manager, id, updates, clock + 1), 1)

CallDeletePlan(id) ==
    /\ clock < MaxClock
    /\ Settle("deletePlan", deletePlan(Manager, id), 1)

CallSaveThemePlan(t, list) ==
    /\ clock < MaxClock
    /\ Settle("saveThemePlan", saveThemePlan(Manager, t, list, clock + 1), 1)

CallSaveSettings(key, value) ==
    /\ clock < MaxClock
    /\ Settle("saveSettings", saveSettings(Manager, key, value), 1)

\* importData of an export: this store's own, or another store's.
CallImportData(data) ==
    /\ clock + Len(data.plans) < MaxClock
    /\ Settle("importData", importData(Manager, data, clock + 1), Len(data.plans) + 1)

\* What importData is called with.
Exports == {exportAllData(Manager), OtherExport}

\* The module is loaded: init() has run as far as it runs without an event.
\* Without IndexedDB it returned at once; with it the open request is pending.
InitStore ==
    /\ activities = <<>>
    /\ hasOnChange = FALSE
    /\ pageActivities = <<>>
    /\ past = <<>>
    /\ future = <<>>
    /\ scheduleKey = 0
    /\ theme = DefaultTheme
    /\ stored = [t \in Themes |-> NoItem]
    /\ call = NoCall
    /\ ret = NoRet
    /\ db = FALSE
    /\ openRequest \in {"none", "pending"}
    /\ idb = EmptyIdb
    /\ ls = EmptyLs
    /\ clock = 0
    /\ reply = NoReply
    /\ AuxUnused

NextStore ==
    \/ OpenSucceeds
    \/ OpenFails
    \/ \E plan \in NewPlans : CallSavePlan(plan)
    \/ \E id \in PlanIds, updates \in Patches : CallUpdatePlan(id, updates)
    \/ \E id \in PlanIds : CallDeletePlan(id)
    \/ \E t \in StoreThemes, list \in StoreLists : CallSaveThemePlan(t, list)
    \/ \E key \in SettingKeys, value \in SettingValues : CallSaveSettings(key, value)
    \/ \E data \in Exports : CallImportData(data)

SpecStore == InitStore /\ [][NextStore]_vars

----------------------------------------------------------------------------
(* A session without IndexedDB whose localStorage runs out of quota *)

\* From here on setItem throws.
QuotaReached ==
    /\ ~ls.full
    /\ ls' = [ls EXCEPT !.full = TRUE]
    /\ UNCHANGED <<db, openRequest, idb, clock, reply>>
    /\ UNCHANGED <<activities, hasOnChange, pageVars, callVars, auxVars>>

\* Another page of the origin freed space: setItem works again.
QuotaFreed ==
    /\ ls.full
    /\ ls' = [ls EXCEPT !.full = FALSE]
    /\ UNCHANGED <<db, openRequest, idb, clock, reply>>
    /\ UNCHANGED <<activities, hasOnChange, pageVars, callVars, auxVars>>

InitQuota == InitStore /\ openRequest = "none"

NextQuota ==
    \/ QuotaReached
    \/ QuotaFreed
    \/ \E plan \in NewPlans : CallSavePlan(plan)
    \/ \E id \in PlanIds, updates \in Patches : CallUpdatePlan(id, updates)
    \/ \E id \in PlanIds : CallDeletePlan(id)

SpecQuota == InitQuota /\ [][NextQuota]_vars

----------------------------------------------------------------------------
(* Two tabs of one origin: the same backend, calls that interleave *)

Tabs == {1, 2}

\* The tab's call settled; the tab is idle again.
TabSettle(tab, op, r) ==
    /\ idb' = r.m.idb
    /\ ls' = r.m.ls
    /\ clock' = clock + 1
    /\ reply' = [op |-> op, error |-> r.error, id |-> r.id]
    /\ tabs' = [tabs EXCEPT ![tab] = IdleTab]
    /\ UNCHANGED <<db, openRequest, view, timers, sw>>
    /\ UNCHANGED <<activities, hasOnChange, pageVars, callVars>>

\* A tab saves a plan.
TabSavePlan(tab, plan) ==
    /\ clock < MaxClock
    /\ ~tabs[tab].busy
    /\ TabSettle(tab, "savePlan", savePlan(Manager, plan, clock + 1))

\* updatePlan in a tab: one transaction in IndexedDB, one synchronous
\* getItem and setItem in localStorage; no other tab acts in between.
TabUpdatePlan(tab, id, updates) ==
    /\ clock < MaxClock
    /\ ~tabs[tab].busy
    /\ TabSettle(tab, "updatePlan", updatePlan(Manager, id, updates, clock + 1))

\* saveThemePlan up to its first await: getThemePlan has given the plan the
\* tab will update (id 0: none).
TabReadThemePlan(tab, t, list) ==
    /\ clock < MaxClock
    /\ ~tabs[tab].busy
    /\ tabs' = [tabs EXCEPT ![tab] =
                    [busy |-> TRUE, theme |-> t, list |-> list,
                     id |-> getThemePlan(Manager, t).id,
                     version |-> getThemePlan(Manager, t).version]]
    /\ UNCHANGED <<storeVars, view, timers, sw>>
    /\ UNCHANGED <<activities, hasOnChange, pageVars, callVars>>

\* The rest of saveThemePlan: updatePlan with the version read plus 1, or
\* savePlan when nothing was read.
TabWriteThemePlan(tab) ==
    /\ clock < MaxClock
    /\ tabs[tab].busy
    /\ TabSettle(tab, "saveThemePlan",
                 IF tabs[tab].id # 0
                 THEN updatePlan(Manager, tabs[tab].id,
                                 Patch({"activities", "updatedAt", "version"}, tabs[tab].theme,
                                       tabs[tab].list, tabs[tab].version + 1, clock + 1),
                                 clock + 1)
                 ELSE savePlan(Manager, [theme |-> tabs[tab].theme, activities |-> tabs[tab].list,
                                         isTemplate |-> FALSE], clock + 1))

\* Both tabs have loaded the module; the database opened in both or in none.
InitTabs ==
    /\ activities = <<>>
    /\ hasOnChange = FALSE
    /\ pageActivities = <<>>
    /\ past = <<>>
    /\ future = <<>>
    /\ scheduleKey = 0
    /\ theme = DefaultTheme
    /\ stored = [t \in Themes |-> NoItem]
    /\ call = NoCall
    /\ ret = NoRet
    /\ db \in BOOLEAN
    /\ openRequest = (IF db THEN "success" ELSE "none")
    /\ idb = EmptyIdb
    /\ ls = EmptyLs
    /\ clock = 0
    /\ reply = NoReply
    /\ AuxUnused

NextTabs ==
    \/ \E tab \in Tabs, plan \in NewPlans : TabSavePlan(tab, plan)
    \/ \E tab \in Tabs, id \in PlanIds, updates \in Patches : TabUpdatePlan(tab, id, updates)
    \/ \E tab \in Tabs, t \in StoreThemes, list \in StoreLists : TabReadThemePlan(tab, t, list)
    \/ \E tab \in Tabs : TabWriteThemePlan(tab)

SpecTabs == InitTabs /\ [][NextTabs]_vars

----------------------------------------------------------------------------
(* updatePlan with a patch that carries the plan's id or createdAt *)

\* Partial<WeekendPlan> with id or createdAt among its fields.
KeyPatch(fields, id, createdAt) ==
    [fields |-> fields, id |-> id, createdAt |-> createdAt]

KeyPatches ==
    {KeyPatch({"id"}, id, 0) : id \in PlanIds}
        \cup {KeyPatch({"createdAt"}, 0, at) : at \in 0..MaxClock}
        \cup {KeyPatch({"id", "createdAt"}, id, 0) : id \in PlanIds}
        \cup {Patch({"theme"}, t, <<>>, 0, 0) : t \in StoreThemes}

InitKeys == InitTabs

NextKeys ==
    \/ \E plan \in NewPlans : CallSavePlan(plan)
    \/ \E id \in PlanIds, updates \in KeyPatches : CallUpdatePlan(id, updates)
    \/ \E id \in PlanIds : CallDeletePlan(id)

SpecKeys == InitKeys /\ [][NextKeys]_vars

----------------------------------------------------------------------------
(* Two sessions given the same calls: one with IndexedDB open, one without *)

\* The manager of the session whose database opened, and of the session
\* without IndexedDB; idb is the former's backend, ls the latter's.
Structured == [db |-> TRUE, idb |-> idb, ls |-> EmptyLs]
FlatKey == [db |-> FALSE, idb |-> EmptyIdb, ls |-> ls]

\* The call settled in both sessions.
TwinSettle(op, a, b) ==
    /\ idb' = a.m.idb
    /\ ls' = b.m.ls
    /\ clock' = clock + 1
    /\ reply' = [op |-> op, error |-> a.error, id |-> a.id]
    /\ UNCHANGED <<db, openRequest>>
    /\ UNCHANGED <<activities, hasOnChange, pageVars, callVars, auxVars>>

TwinSavePlan(plan) ==
    /\ clock < MaxClock
    /\ TwinSettle("savePlan", savePlan(Structured, plan, clock + 1),
                  savePlan(FlatKey, plan, clock + 1))

TwinUpdatePlan(id, updates) ==
    /\ clock < MaxClock
    /\ TwinSettle("updatePlan", updatePlan(Structured, id, updates, clock + 1),
                  updatePlan(FlatKey, id, updates, clock + 1))

TwinDeletePlan(id) ==
    /\ clock < MaxClock
    /\ TwinSettle("deletePlan", deletePlan(Structured, id), deletePlan(FlatKey, id))

TwinSaveSettings(key, value) ==
    /\ clock < MaxClock
    /\ TwinSettle("saveSettings", saveSettings(Structured, key, value),
                  saveSettings(FlatKey, key, value))

InitTwin ==
    /\ activities = <<>>
    /\ hasOnChange = FALSE
    /\ pageActivities = <<>>
    /\ past = <<>>
    /\ future = <<>>
    /\ scheduleKey = 0
    /\ theme = DefaultTheme
    /\ stored = [t \in Themes |-> NoItem]
    /\ call = NoCall
    /\ ret = NoRet
    /\ db = TRUE
    /\ openRequest = "success"
    /\ idb = EmptyIdb
    /\ ls = EmptyLs
    /\ clock = 0
    /\ reply = NoReply
    /\ AuxUnused

NextTwin ==
    \/ \E plan \in NewPlans : TwinSavePlan(plan)
    \/ \E id \in PlanIds, updates \in Patches : TwinUpdatePlan(id, updates)
    \/ \E id \in PlanIds : TwinDeletePlan(id)
    \/ \E key \in SettingKeys, value \in SettingValues : TwinSaveSettings(key, value)

SpecTwin == InitTwin /\ [][NextTwin]_vars

----------------------------------------------------------------------------
(* The virtualization hooks: useVirtualization and useTimelineVirtualization *)

\* The configuration the hooks are given.
ItemHeight == 10
ContainerHeight == 20
MinItemHeight == 10
MaxItemHeight == 40
Threshold == 2

\* The overscan useVirtualization is given (5 when none is), and the one
\* useTimelineVirtualization has built in.
Overscans == {0, 1, 5}
TimelineOverscan == 5

\* The largest scrollTop a scroll event reports.
MaxScroll == 90

\* Math.ceil(a / b)
CeilDiv(a, b) == 0 - ((0 - a) \div b)

VirtualItem(index, start, size) ==
    [index |-> index, start |-> start, end |-> start + size, size |-> size]

\* The items from startIndex to endIndex, each at index * itemHeight.
ListItems(startIndex, endIndex) ==
    [k \in 1..Max2(0, endIndex - startIndex + 1) |->
        VirtualItem(startIndex + k - 1, (startIndex + k - 1) * ItemHeight, ItemHeight)]

\* A faulty useVirtualization: the end index rounds down.
useVirtualizationFloorEnd(n, scrollOffset, overscan) ==
    IF ~(n > Threshold)
    THEN ListItems(0, n - 1)
    ELSE ListItems(Max2(0, (scrollOffset \div ItemHeight) - overscan),
                   Min2(n - 1, ((scrollOffset + ContainerHeight) \div ItemHeight) - 1 + overscan))

\* virtualItems of useVirtualization for n items
useVirtualization(n, scrollOffset, overscan) ==
    IF ~(n > Threshold)
    THEN ListItems(0, n - 1)
    ELSE ListItems(Max2(0, (scrollOffset \div ItemHeight) - overscan),
                   Min2(n - 1, CeilDiv(scrollOffset + ContainerHeight, ItemHeight) + overscan))

\* What an activity gives calculateItemHeight to look at.
PlainItem == [notesLength |-> 0, mood |-> NoMood, durationMins |-> 60]
RichItem == [notesLength |-> 60, mood |-> "social", durationMins |-> 180]

calculateItemHeight(activity) ==
    LET withNotes == MinItemHeight + (IF activity.notesLength > 50 THEN 20 ELSE 0)
        withMood == withNotes + (IF activity.mood # NoMood THEN 15 ELSE 0)
        baseHeight == withMood + (IF activity.durationMins > 120 THEN 10 ELSE 0)
    IN  Min2(Max2(baseHeight, MinItemHeight), MaxItemHeight)

\* activities.map(calculateItemHeight)
Heights(acts) == [i \in 1..Len(acts) |-> calculateItemHeight(acts[i])]

\* itemHeights.slice(0, k).reduce((sum, height) => sum + height, 0)
RECURSIVE SliceSum(_, _)
SliceSum(itemHeights, k) ==
    IF k <= 0 \/ Len(itemHeights) = 0 THEN 0
    ELSE LET m == Min2(k, Len(itemHeights))
         IN  itemHeights[m] + SliceSum(itemHeights, m - 1)

\* itemHeights[i] || minItemHeight, i counted from 0
HeightAt(itemHeights, i) ==
    IF i + 1 <= Len(itemHeights) /\ itemHeights[i + 1] # 0
    THEN itemHeights[i + 1] ELSE MinItemHeight

\* The offset the loops have added up before item i.
RECURSIVE OffsetAt(_, _)
OffsetAt(itemHeights, i) ==
    IF i <= 0 THEN 0 ELSE OffsetAt(itemHeights, i - 1) + HeightAt(itemHeights, i - 1)

\* virtualItems of useTimelineVirtualization
useTimelineVirtualization(acts, itemHeights, scrollOffset) ==
    LET n == Len(acts)
        starts == {i \in 0..(n - 1) :
                      OffsetAt(itemHeights, i) + HeightAt(itemHeights, i) > scrollOffset}
        ends == {i \in 0..(n - 1) :
                    OffsetAt(itemHeights, i + 1) > scrollOffset + ContainerHeight}
        startIndex == IF starts = {} THEN 0
                      ELSE Max2(0, (CHOOSE i \in starts : \A j \in starts : i <= j)
                                   - TimelineOverscan)
        endIndex == IF ends = {} THEN n - 1
                    ELSE Min2(n - 1, (CHOOSE i \in ends : \A j \in ends : i <= j)
                                     + TimelineOverscan)
    IN  IF ~(n > Threshold)
        THEN [k \in 1..n |->
                [index |-> k - 1,
                 start |-> SliceSum(itemHeights, k - 1),
                 end |-> SliceSum(itemHeights, k),
                 size |-> HeightAt(itemHeights, k - 1)]]
        ELSE [k \in 1..Max2(0, endIndex - startIndex + 1) |->
                VirtualItem(startIndex + k - 1, OffsetAt(itemHeights, startIndex + k - 1),
                            HeightAt(itemHeights, startIndex + k - 1))]

\* The collections the hooks are given: every list of up to three items, and
\* two lists long enough for the timeline's overscan to leave items out.
RECURSIVE Repeat(_, _)
Repeat(list, times) == IF times = 0 THEN <<>> ELSE list \o Repeat(list, times - 1)

Collections ==
    UNION {[1..k -> {PlainItem, RichItem}] : k \in 0..3}
        \cup {Repeat(<<PlainItem>>, 8), Repeat(<<PlainItem, RichItem>>, 4)}

\* The effect that follows a render with new activities:
\* setItemHeights(activities.map(calculateItemHeight)).
HeightsEffect ==
    /\ view.itemHeights # Heights(view.acts)
    /\ view' = [view EXCEPT !.itemHeights = Heights(view.acts)]
    /\ UNCHANGED <<tabs, timers, sw>>
    /\ UNCHANGED <<activities, hasOnChange, pageVars, callVars, storeVars>>

\* The parent renders the hooks with another collection; the render uses the
\* itemHeights state as it is, the effect has not run yet.
CollectionChanges(list) ==
    /\ view.itemHeights = Heights(view.acts)
    /\ list # view.acts
    /\ view' = [view EXCEPT !.acts = list]
    /\ UNCHANGED <<tabs, timers, sw>>
    /\ UNCHANGED <<activities, hasOnChange, pageVars, callVars, storeVars>>

\* handleScroll: setScrollOffset(container.scrollTop); the listener is
\* attached while the list is virtualized.
HandleScroll(offset) ==
    /\ Len(view.acts) > Threshold
    /\ offset # view.scrollOffset
    /\ view' = [view EXCEPT !.scrollOffset = offset]
    /\ UNCHANGED <<tabs, timers, sw>>
    /\ UNCHANGED <<activities, hasOnChange, pageVars, callVars, storeVars>>

\* The first render: itemHeights is the empty array of useState.
InitView ==
    /\ activities = <<>>
    /\ hasOnChange = FALSE
    /\ pageActivities = <<>>
    /\ past = <<>>
    /\ future = <<>>
    /\ scheduleKey = 0
    /\ theme = DefaultTheme
    /\ stored = [t \in Themes |-> NoItem]
    /\ call = NoCall
    /\ ret = NoRet
    /\ ManagerUnused
    /\ tabs = NoTabs
    /\ timers = NoTimers
    /\ sw = NoWorker
    /\ view \in {[acts |-> list, itemHeights |-> <<>>, scrollOffset |-> 0] : list \in Collections}

NextView ==
    \/ HeightsEffect
    \/ \E list \in Collections : CollectionChanges(list)
    \/ \E offset \in 0..MaxScroll : HandleScroll(offset)

SpecView == InitView /\ [][NextView]_vars

----------------------------------------------------------------------------
(* PerformanceOptimizer.debounce *)

\* How many calls of wrappers a run makes.
MaxCalls == 3

\* The wrappers debounce(func, delay, key) has returned: two arrow functions
\* passed in place (their name is empty), a named function, and a function
\* given a key.
Wrappers ==
    {[func |-> "autosave", name |-> "", key |-> ""],
     [func |-> "search", name |-> "", key |-> ""],
     [func |-> "resize", name |-> "handleResize", key |-> ""],
     [func |-> "sync", name |-> "", key |-> "sync"]}

CallArgs == {1, 2}

\* key || func.name || 'anonymous'
timerKey(w) == IF w.key # "" THEN w.key ELSE IF w.name # "" THEN w.name ELSE "anonymous"

CallsMade == Cardinality({i \in 1..Len(timers.log) : timers.log[i].kind = "call"})

\* A call of the wrapper: the timer held under the key is cleared, a new timer
\* is set and held under the key.
CallWrapper(w, args) ==
    /\ CallsMade < MaxCalls
    /\ timers' = [pending |-> {e \in timers.pending : e.key # timerKey(w)}
                                \cup {[key |-> timerKey(w), func |-> w.func, args |-> args]},
                  log |-> Append(timers.log, [kind |-> "call", func |-> w.func, args |-> args])]
    /\ UNCHANGED <<tabs, view, sw>>
    /\ UNCHANGED <<activities, hasOnChange, pageVars, callVars, storeVars>>

\* A timer fires: func(...args), then the key is deleted from the map.
TimerFires(e) ==
    /\ e \in timers.pending
    /\ timers' = [pending |-> {d \in timers.pending : d.key # e.key} \ {e},
                  log |-> Append(timers.log, [kind |-> "invoke", func |-> e.func, args |-> e.args])]
    /\ UNCHANGED <<tabs, view, sw>>
    /\ UNCHANGED <<activities, hasOnChange, pageVars, callVars, storeVars>>

InitDebounce ==
    /\ activities = <<>>
    /\ hasOnChange = FALSE
    /\ pageActivities = <<>>
    /\ past = <<>>
    /\ future = <<>>
    /\ scheduleKey = 0
    /\ theme = DefaultTheme
    /\ stored = [t \in Themes |-> NoItem]
    /\ call = NoCall
    /\ ret = NoRet
    /\ ManagerUnused
    /\ AuxUnused

NextDebounce ==
    \/ \E w \in Wrappers, args \in CallArgs : CallWrapper(w, args)
    \/ \E e \in timers.pending : TimerFires(e)

SpecDebounce == InitDebounce /\ [][NextDebounce]_vars

----------------------------------------------------------------------------
(* The service worker: install and handleFetch *)

\* How many fetch events a run handles.
MaxFetches == 3

STATIC_ASSETS == {"/", "/favicon.ico", "/manifest.json", "/offline.html"}

StaticExtensions ==
    {"js", "css", "png", "jpg", "jpeg", "gif", "svg", "ico", "woff", "woff2", "ttf", "eot"}

\* GET requests to http(s) URLs: the path, its first segment, its extension
\* and the request's destination.
Request(pathname, dir, ext, destination) ==
    [pathname |-> pathname, dir |-> dir, ext |-> ext, destination |-> destination]

Requests ==
    {Request("/", "", "", "document"),
     Request("/offline.html", "", "html", "document"),
     Request("/plans", "", "", "document"),
     Request("/api/plans", "api", "", ""),
     Request("/app.js", "", "js", "script")}

Response(url, status, body) == [url |-> url, status |-> status, body |-> body]

\* What await gives when the promise resolved with undefined.
Undefined == Response("", 0, "undefined")

\* fetch(request) rejected
NetworkError == Response("", 0, "TypeError")

\* new Response('Offline', { status: 503, statusText: 'Service Unavailable' })
OfflineResponse == Response("", 503, "Offline")

\* What fetch(request) settles with: a rejection, an ok response with one of
\* two bodies, or a response that is not ok.
NetworkOutcomes(request) ==
    {NetworkError,
     Response(request.pathname, 200, "v1"),
     Response(request.pathname, 200, "v2"),
     Response(request.pathname, 404, "Not Found")}

ok(response) == response.status \in 200..299

isStaticAsset(url) == url.pathname \in STATIC_ASSETS \/ url.ext \in StaticExtensions

\* /^\/api\//.test(url.pathname)
isApiRequest(url) == url.dir = "api"

\* cache.match(request): the entry of the request's URL, or undefined.
getFromCache(cache, pathname) ==
    IF \E e \in cache : e.url = pathname
    THEN CHOOSE e \in cache : e.url = pathname
    ELSE Undefined

\* cache.put(request, response); an error of the cache is logged and dropped.
cacheResponse(cache, response, stores) ==
    IF stores THEN {e \in cache : e.url # response.url} \cup {response} ELSE cache

\* caches.match('/offline.html'): the first match over the caches in the
\* order they were created.
MatchOffline(w) ==
    IF getFromCache(w.static, "/offline.html") # Undefined
    THEN getFromCache(w.static, "/offline.html")
    ELSE getFromCache(w.dynamic, "/offline.html")

\* The catch of handleFetch.
AfterThrow(w, request) ==
    IF request.destination = "document" THEN MatchOffline(w) ELSE OfflineResponse

\* handleFetch(request), with what fetch settles with and whether the cache
\* takes the response.  It gives the dynamic cache it leaves and the response.
handleFetch(w, request, network, stores) ==
    LET cachedStatic == getFromCache(w.static, request.pathname)
        cachedDynamic == getFromCache(w.dynamic, request.pathname)
        fetched == [dynamic |-> IF ok(network)
                                THEN cacheResponse(w.dynamic, network, stores)
                                ELSE w.dynamic,
                    response |-> network]
        kept(response) == [dynamic |-> w.dynamic, response |-> response]
    IN  IF isStaticAsset(request) /\ cachedStatic # Undefined
        THEN kept(cachedStatic)
        ELSE IF isApiRequest(request)
        THEN (IF network # NetworkError THEN fetched
              ELSE IF cachedDynamic # Undefined THEN kept(cachedDynamic)
              ELSE kept(AfterThrow(w, request)))
        ELSE (IF network # NetworkError THEN fetched
              ELSE IF cachedDynamic # Undefined THEN kept(cachedDynamic)
              ELSE IF request.destination = "document" THEN kept(MatchOffline(w))
              ELSE kept(AfterThrow(w, request)))

\* install: cache.addAll(STATIC_ASSETS) stored every asset.
InstallSucceeds ==
    /\ sw.state = "parsed"
    /\ sw' = [sw EXCEPT !.state = "installed",
                        !.static = {Response(asset, 200, "v0") : asset \in STATIC_ASSETS}]
    /\ UNCHANGED <<tabs, view, timers>>
    /\ UNCHANGED <<activities, hasOnChange, pageVars, callVars, storeVars>>

\* install: addAll rejected, an asset could not be fetched; the catch logs
\* the error, the promise given to waitUntil resolves and the worker installs.
InstallFails ==
    /\ sw.state = "parsed"
    /\ sw' = [sw EXCEPT !.state = "installed"]
    /\ UNCHANGED <<tabs, view, timers>>
    /\ UNCHANGED <<activities, hasOnChange, pageVars, callVars, storeVars>>

\* A fetch event of a GET request to an http(s) URL.
Fetch(request, network, stores) ==
    /\ sw.state = "installed"
    /\ sw.fetches < MaxFetches
    /\ LET r == handleFetch(sw, request, network, stores)
       IN  sw' = [sw EXCEPT !.dynamic = r.dynamic, !.response = r.response,
                            !.fetches = @ + 1]
    /\ UNCHANGED <<tabs, view, timers>>
    /\ UNCHANGED <<activities, hasOnChange, pageVars, callVars, storeVars>>

InitWorker == InitDebounce

NextWorker ==
    \/ InstallSucceeds
    \/ InstallFails
    \/ \E request \in Requests, stores \in BOOLEAN :
           \E network \in NetworkOutcomes(request) : Fetch(request, network, stores)

SpecWorker == InitWorker /\ [][NextWorker]_vars

----------------------------------------------------------------------------
(* The helper functions, each called on its own with arguments of a bounded set *)

T0800 == <<"0", "8", ":", "0", "0">>

\* Start texts for the edit draft: every hour text with every minute text,
\* and texts that are not of the form digits:digits.
HourTexts == {<<"0">>, <<"7">>, <<"0", "8">>, <<"2", "3">>, <<"2", "4">>, <<"9", "9">>}
MinuteTexts == {<<"0", "0">>, <<"0", "7">>, <<"5", "9">>, <<"6", "0">>, <<"9", "9">>}
OddTexts == {<<>>, <<"8">>, <<"8", "0", "0">>, <<"8", ":", "0">>, <<":", "0", "0">>,
             <<"-", "2", ":", "0", "0">>, <<"0", "8", ":", "0", "0", "0">>,
             <<"1", "2", "3", ":", "0", "0">>, <<"a", "b", ":", "c", "d">>,
             <<"8", ":", "0", "0", ":", "0", "0">>, <<" ", "8", ":", "0", "0">>,
             <<"1", "1", ":", "4", "5", " ">>}
StartTexts == {h \o <<":">> \o m : h \in HourTexts, m \in MinuteTexts} \cup OddTexts

CallOf(fn) == [NoCall EXCEPT !.fn = fn]

SaveEditCalls == {[CallOf("saveEdit") EXCEPT !.text = t] : t \in StartTexts}

\* saveEdit on the list <<Act1, Act2>>, the draft being Act1 with its start
\* field set to the text.
CallSaveEdit ==
    /\ call.fn = "saveEdit"
    /\ ~ret.done
    /\ LET result == SaveEditUpdater(<<Act1, Act2>>,
                                     Cleaned([Act1 EXCEPT !.start = call.text]))
       IN  ret' = [NoRet EXCEPT !.done = TRUE, !.list = result.list,
                                !.isPrev = result.isPrev]
    /\ UNCHANGED <<activities, hasOnChange, pageVars, storeVars, auxVars, call>>

\* Every zero-padded HH:MM from 00:00 to 23:59, written digit by digit.
ClockTexts ==
    {<<DigitChars[a + 1], DigitChars[b + 1], ":", DigitChars[c + 1], DigitChars[d + 1]>> :
        a \in 0..2, b \in 0..9, c \in 0..5, d \in 0..9} \
    {<<"2", DigitChars[b + 1], ":", DigitChars[c + 1], DigitChars[d + 1]>> :
        b \in 4..9, c \in 0..5, d \in 0..9}

ToMinutesCalls == {[CallOf("toMinutes") EXCEPT !.text = t] : t \in ClockTexts \cup StartTexts}

CallToMinutes ==
    /\ call.fn = "toMinutes"
    /\ ~ret.done
    /\ ret' = [NoRet EXCEPT !.done = TRUE, !.n = toMinutes(call.text)]
    /\ UNCHANGED <<activities, hasOnChange, pageVars, storeVars, auxVars, call>>

\* toTimeString of the minutes toMinutes returned; the text toMinutes was
\* given stays in call.text.
ThenToTimeString ==
    /\ call.fn = "toMinutes"
    /\ ret.done
    /\ ret.n # NaN
    /\ call' = [call EXCEPT !.fn = "toTimeString", !.n = ret.n]
    /\ ret' = [NoRet EXCEPT !.done = TRUE, !.text = toTimeString(ret.n)]
    /\ UNCHANGED <<activities, hasOnChange, pageVars, storeVars, auxVars>>

\* Minute counts toTimeString is given: the whole day, and counts below 0 and
\* above 1439 as the drop clamp yields for a duration longer than the window.
MinBelow == 130
MinAbove == 1510
MinuteArgs == (0 - MinBelow)..MinAbove

ToTimeStringCalls == {[CallOf("toTimeString") EXCEPT !.n = n] : n \in MinuteArgs}

CallToTimeString ==
    /\ call.fn = "toTimeString"
    /\ ~ret.done
    /\ ret' = [NoRet EXCEPT !.done = TRUE, !.text = toTimeString(call.n)]
    /\ UNCHANGED <<activities, hasOnChange, pageVars, storeVars, auxVars, call>>

RoundSteps == {1, 2, 15, 30}
RoundArgs == (0 - 50)..130 \cup {725, 1500}

RoundToStepCalls ==
    {[CallOf("roundToStep") EXCEPT !.n = n, !.step = k] : n \in RoundArgs, k \in RoundSteps}

CallRoundToStep ==
    /\ call.fn = "roundToStep"
    /\ ~ret.done
    /\ ret' = [NoRet EXCEPT !.done = TRUE, !.n = roundToStep(call.n, call.step)]
    /\ UNCHANGED <<activities, hasOnChange, pageVars, storeVars, auxVars, call>>

\* Bounding rectangles of the day column, which is never lower than its
\* track's min-h of 440 px (Track is the same column at one pixel per slot),
\* and pointer positions from above it to below it.
RectTops == {0, 120}
RectHeights == {88, 456, 576}
PointerMargin == 20

GetMinutesCalls ==
    {[CallOf("getMinutesFromElement") EXCEPT !.n = y, !.top = t, !.height = h] :
        t \in RectTops, h \in RectHeights,
        y \in (0 - PointerMargin)..(120 + 576 + PointerMargin)}

CallGetMinutesFromElement ==
    /\ call.fn = "getMinutesFromElement"
    /\ ~ret.done
    /\ ret' = [NoRet EXCEPT !.done = TRUE,
                            !.n = getMinutesFromElement(call.n, [top |-> call.top,
                                                                 height |-> call.height])]
    /\ UNCHANGED <<activities, hasOnChange, pageVars, storeVars, auxVars, call>>

\* Lists pickNextStartTime is given: up to two activities, each on either
\* day, early, mid-day or late.
PickStarts == {<<"0", "6", ":", "0", "0">>, <<"0", "9", ":", "1", "0">>, T1100,
               T2200, <<"2", "2", ":", "4", "5">>}
PickDurations == {15, 60, 100}
PickActs == {[Act1 EXCEPT !.day = d, !.start = st, !.durationMins = du] :
                d \in Days, st \in PickStarts, du \in PickDurations}
PickLists == {<<>>} \cup {<<a>> : a \in PickActs} \cup {<<a, b>> : a \in PickActs, b \in PickActs}

PickCalls == {[CallOf("pickNextStartTime") EXCEPT !.list = l] : l \in PickLists}

CallPickNextStartTime ==
    /\ call.fn = "pickNextStartTime"
    /\ ~ret.done
    /\ ret' = [NoRet EXCEPT !.done = TRUE, !.text = pickNextStartTime(call.list)]
    /\ UNCHANGED <<activities, hasOnChange, pageVars, storeVars, auxVars, call>>

InitHelpers ==
    /\ activities = <<>>
    /\ hasOnChange = FALSE
    /\ pageActivities = <<>>
    /\ past = <<>>
    /\ future = <<>>
    /\ scheduleKey = 0
    /\ theme = DefaultTheme
    /\ stored = [t \in Themes |-> NoItem]
    /\ call \in SaveEditCalls \cup ToMinutesCalls \cup ToTimeStringCalls
                \cup RoundToStepCalls \cup GetMinutesCalls \cup PickCalls
    /\ ret = NoRet
    /\ ManagerUnused
    /\ AuxUnused

NextHelpers ==
    \/ CallSaveEdit
    \/ CallToMinutes
    \/ ThenToTimeString
    \/ CallToTimeString
    \/ CallRoundToStep
    \/ CallGetMinutesFromElement
    \/ CallPickNextStartTime

SpecHelpers == InitHelpers /\ [][NextHelpers]_vars

----------------------------------------------------------------------------
(* Properties *)

StartOf(a) == toMinutes(a.start)
EndOf(a) == toMinutes(a.start) + a.durationMins

NoSameDayOverlap(list) ==
    \A i, j \in 1..Len(list) :
        (i # j /\ list[i].day = list[j].day)
            => (EndOf(list[i]) <= StartOf(list[j]) \/ EndOf(list[j]) <= StartOf(list[i]))

DropMinutes == {getMinutesFromElement(y, Track) : y \in PointerYs}

SharesMinute(a, c) == Max2(StartOf(a), StartOf(c)) < Min2(EndOf(a), EndOf(c))

\* hasConflict decides this candidate by shared minutes, whichever id is
\* excluded.
DecidedExactly(list, c) ==
    /\ \A ex \in IdsOf(list) \cup {NoId} :
          hasConflict(list, c, ex)
              <=> \E a \in RangeOf(list) :
                     a.day = c.day /\ a.id # ex /\ SharesMinute(a, c)
    /\ \A a \in RangeOf(list) :
          (EndOf(a) = StartOf(c) \/ StartOf(a) = EndOf(c) \/ a.day # c.day)
              => ~hasConflict(<<a>>, c, NoId)

\* C2: hasConflict is true exactly when an activity of the candidate's day,
\* other than the excluded id, shares a minute with the candidate; an
\* activity that ends where the candidate starts, or starts where it ends,
\* and any activity of the other day, is no conflict.  The candidates are
\* those the handlers build in this state: moved, inserted and edited.
C2_HasConflictExact ==
    /\ \A a \in RangeOf(activities), d \in Days, m \in DropMinutes :
          DecidedExactly(activities, MovedActivity(a, d, m))
    /\ \A p \in Payloads, d \in Days, m \in DropMinutes :
          DecidedExactly(activities, NewActivity(NextId, p, d, m))
    /\ \A draft \in EditDrafts(activities) :
          DecidedExactly(activities, Cleaned(draft))

\* An inserted activity starts exactly where another of its day ends.
C2_Witness ==
    \E i, j \in 1..Len(activities) :
        /\ i # j
        /\ activities[i].day = activities[j].day
        /\ EndOf(activities[i]) = StartOf(activities[j])
        /\ activities[j].title = "Hike"

\* C3: a drop-insert, drop-move or saveEdit whose candidate conflicts, and
\* a drop-move or saveEdit of an id that is not in the list, leaves the
\* list exactly as it was, whatever the list and the request.
C3_RejectedLeavesList ==
    /\ \A p \in Payloads, d \in Days, m \in DropMinutes :
          LET newAct == NewActivity(NextId, p, d, m)
          IN  (~MissingFields(p) /\ hasConflict(activities, newAct, NoId))
                  => InsertUpdater(activities, newAct).list = activities
    /\ \A id \in Ids, d \in Days, m \in DropMinutes :
          (\/ id \notin IdsOf(activities)
           \/ hasConflict(activities,
                          MovedActivity(activities[FindIndex(activities, id)], d, m), id))
              => MoveUpdater(activities, id, d, m).list = activities
    /\ \A draft \in EditDrafts(activities) :
          (\/ draft.id \notin IdsOf(activities)
           \/ hasConflict(activities, Cleaned(draft), draft.id))
              => SaveEditUpdater(activities, Cleaned(draft)).list = activities

\* After an insert, a state in which a further insert, a move and an edit
\* each conflict: the rejected requests leave it as it is.
C3_Witness ==
    /\ \E a \in RangeOf(activities) : a.title = "Hike"
    /\ \E p \in Payloads, d \in Days, m \in DropMinutes :
          ~MissingFields(p) /\ hasConflict(activities, NewActivity(NextId, p, d, m), NoId)
    /\ \E a \in RangeOf(activities), d \in Days, m \in DropMinutes :
          hasConflict(activities, MovedActivity(a, d, m), a.id)
    /\ \E draft \in EditDrafts(activities) :
          /\ draft.id \in IdsOf(activities)
          /\ draft \notin RangeOf(activities)
          /\ hasConflict(activities, Cleaned(draft), draft.id)

\* The activity addFromBrowser builds for a catalog item and a request.
AddedItem(a, r) == NewItem(FreshId, a, r.day, r.start, pageActivities)

\* C4: addFromBrowser commits the new activity, with an explicit day and
\* start or with the auto-picked start, only if it does not overlap an
\* activity of its day in the list it is added to.
C4_AddedOnlyIfFree ==
    [][\A a \in Catalog, r \in AddRequests :
          (HasFreshId /\ AddFromBrowser(a, r.day, r.start))
              => ~hasConflict(pageActivities, AddedItem(a, r), NoId)
      ]_vars

\* The minutes getMinutesFromElement can return: the slots of the window.
GridMinutes ==
    {startHour * 60 + k * MIN_SLOT_MINUTES :
        k \in 0..(((endHour - startHour) * 60) \div MIN_SLOT_MINUTES)}

\* The activity with this id in the list, same day, start and duration as a.
KeepsTiming(list, a) ==
    \E b \in RangeOf(list) :
        b.id = a.id /\ b.day = a.day /\ b.start = a.start
                    /\ b.durationMins = a.durationMins

\* C5: in an overlap-free list, dropping an activity onto its own day and
\* start, and saving an edit that changes no timing field, is accepted
\* (hasConflict excluding its own id is false) and leaves its day, start and
\* durationMins as they were.
C5_OwnSlotKept ==
    NoSameDayOverlap(activities) =>
        \A a \in RangeOf(activities) :
            /\ ~hasConflict(activities, a, a.id)
            /\ StartOf(a) \in GridMinutes
                  => KeepsTiming(MoveUpdater(activities, a.id, a.day, StartOf(a)).list, a)
            /\ KeepsTiming(SaveEditUpdater(activities, Cleaned(a)).list, a)

\* C6: every activity committed by drop-insert, drop-move or saveEdit lies
\* inside the day window: it starts at or after startHour * 60 and ends at
\* or before endHour * 60, whatever the pointer position, payload duration
\* and edited start and duration.
C6_InsideWindow ==
    \A a \in RangeOf(activities) :
        StartOf(a) >= startHour * 60 /\ EndOf(a) <= endHour * 60

C8_StartOnGrid ==
    \A a \in RangeOf(activities) : StartOf(a) % MIN_SLOT_MINUTES = 0

\* C9: an accepted drop-move of X changes only X's day and start: X keeps
\* its id, title, category, durationMins, mood and notes, every other
\* activity is unchanged, and the number of activities is unchanged.
C9_MoveChangesDayAndStart ==
    \A id \in IdsOf(activities), d \in Days, m \in DropMinutes :
        LET result == MoveUpdater(activities, id, d, m)
        IN  ~result.isPrev
               => /\ Len(result.list) = Len(activities)
                  /\ \A i \in 1..Len(activities) :
                        IF activities[i].id = id
                        THEN /\ result.list[i].day = d
                             /\ [result.list[i] EXCEPT !.day = activities[i].day,
                                                       !.start = activities[i].start]
                                   = activities[i]
                        ELSE result.list[i] = activities[i]

\* Brunch was moved to the end of Sunday, mood and notes with it, and Walk
\* stayed where it was.
C9_Witness ==
    activities = <<[Act1 EXCEPT !.day = "sunday", !.start = T2200], Act2>>

\* C10: removeActivity(id) removes the activity with that id and no other,
\* keeping the order of the rest; when no activity has that id the list is
\* unchanged, so removing the id again changes nothing.
C10_RemoveOnlyThatId ==
    \A id \in Ids :
        LET left == RemoveUpdater(activities, id).list
        IN  /\ IdsOf(left) = IdsOf(activities) \ {id}
            /\ \A a \in RangeOf(activities) : a.id # id => a \in RangeOf(left)
            /\ Len(left) = Cardinality({i \in 1..Len(activities) : activities[i].id # id})
            /\ \A i, j \in 1..Len(left) :
                  i < j => FindIndex(activities, left[i].id)
                               < FindIndex(activities, left[j].id)
            /\ (id \notin IdsOf(activities) => left = activities)
            /\ RemoveUpdater(left, id).list = left

\* The first of two activities was removed and the second is what is left.
C10_Witness == activities = <<Act2>>

----------------------------------------------------------------------------
(* Time texts *)

\* Digits, a colon, two digits: what /^\d{1,2}:\d{2}$/ accepts.
ParseableTime(t) ==
    /\ Len(t) \in {4, 5}
    /\ \A i \in 1..Len(t) : IF i = Len(t) - 2 THEN t[i] = ":" ELSE IsDigit(t[i])

\* A zero-padded HH:MM with the hour in 0..23 and the minute in 0..59.
WellFormedTime(t) ==
    /\ Len(t) = 5
    /\ t[3] = ":"
    /\ \A i \in {1, 2, 4, 5} : IsDigit(t[i])
    /\ DigitVal(t[1]) * 10 + DigitVal(t[2]) \in 0..23
    /\ DigitVal(t[4]) * 10 + DigitVal(t[5]) \in 0..59

\* C11: saveEdit gives a result for every start text; the start it commits is
\* a zero-padded HH:MM with hour in 0..23 and minute in 0..59, and it is
\* 08:00 when the text is not parseable time text.
C11_SaveEditStartWellFormed ==
    (call.fn = "saveEdit" /\ ret.done)
        => /\ Len(ret.list) = 2
           /\ ret.isPrev => ret.list = <<Act1, Act2>>
           /\ ~ret.isPrev =>
                 /\ WellFormedTime(ret.list[1].start)
                 /\ ~ParseableTime(call.text) => ret.list[1].start = T0800

\* saveEdit has committed 08:00 for a start text that is not time text.
C11_Witness ==
    /\ call.fn = "saveEdit" /\ ret.done /\ ~ret.isPrev
    /\ call.text = <<"-", "2", ":", "0", "0">>
    /\ ret.list[1].start = T0800

\* C12: toTimeString(toMinutes(t)) is t for every zero-padded HH:MM text t
\* with hour in 0..23 and minute in 0..59.
C12_RoundTrip ==
    (call.fn = "toTimeString" /\ ret.done /\ WellFormedTime(call.text))
        => ret.text = call.text

\* 07:05 has gone through toMinutes and back through toTimeString.
C12_Witness ==
    /\ call.fn = "toTimeString" /\ ret.done
    /\ call.text = <<"0", "7", ":", "0", "5">>
    /\ call.n = 425
    /\ ret.text = call.text

\* C13: for every integer, negative ones and those of 1440 or more included,
\* toTimeString gives a zero-padded HH:MM between 00:00 and 23:59.
C13_ToTimeStringInDay ==
    (call.fn = "toTimeString" /\ ret.done) => WellFormedTime(ret.text)

\* C14: roundToStep(minutes, step) is a multiple of step less than one step
\* away from minutes, and the larger multiple when minutes is halfway between
\* two of them.
C14_RoundToStep ==
    (call.fn = "roundToStep" /\ ret.done)
        => /\ ret.n % call.step = 0
           /\ ret.n - call.n < call.step
           /\ call.n - ret.n < call.step
           /\ (2 * (call.n % call.step) = call.step) => ret.n > call.n

\* roundToStep(-15, 30) has returned 0: halfway, below zero.
C14_Witness ==
    /\ call.fn = "roundToStep" /\ ret.done
    /\ call.n = 0 - 15 /\ call.step = 30
    /\ ret.n = 0

\* C15: getMinutesFromElement gives startHour*60 at the top of the usable
\* track and above it, endHour*60 at its bottom and below it, and everywhere a
\* multiple of 15 in [startHour*60, endHour*60].
C15_PointerToMinutes ==
    (call.fn = "getMinutesFromElement" /\ ret.done)
        => LET usableTop == call.top + 8
               usableBottom == call.top + call.height - 8
           IN  /\ call.n <= usableTop => ret.n = startHour * 60
               /\ call.n >= usableBottom => ret.n = endHour * 60
               /\ ret.n >= startHour * 60
               /\ ret.n <= endHour * 60
               /\ ret.n % 15 = 0

\* A pointer 8 px above the bottom of a 456 px column at top 120 has been
\* mapped to 23:00.
C15_Witness ==
    /\ call.fn = "getMinutesFromElement" /\ ret.done
    /\ call.top = 120 /\ call.height = 456 /\ call.n = 120 + 456 - 8
    /\ ret.n = 23 * 60

\* The minutes a zero-padded HH:MM text stands for.
ClockMinutes(t) ==
    (DigitVal(t[1]) * 10 + DigitVal(t[2])) * 60 + DigitVal(t[4]) * 10 + DigitVal(t[5])

SaturdayActs(list) == {list[i] : i \in {j \in 1..Len(list) : list[j].day = "saturday"}}

\* C16: pickNextStartTime gives 10:00 when no activity is on Saturday;
\* otherwise a multiple of 30 minutes, at most 22:30, at least 07:00, the same
\* whatever is on Sunday, and not before the end of any Saturday activity.
C16_PickNextStartTime ==
    (call.fn = "pickNextStartTime" /\ ret.done)
        => IF SaturdayActs(call.list) = {}
           THEN ret.text = <<"1", "0", ":", "0", "0">>
           ELSE /\ WellFormedTime(ret.text)
                /\ ClockMinutes(ret.text) % 30 = 0
                /\ ClockMinutes(ret.text) <= 22 * 60 + 30
                /\ ClockMinutes(ret.text) >= 7 * 60
                /\ ret.text = pickNextStartTime(
                                  SelectSeq(call.list, LAMBDA a : a.day = "saturday"))
                /\ \A a \in SaturdayActs(call.list) : ClockMinutes(ret.text) >= EndOf(a)

\* C17: a page load leaves every stored plan as the last session left it.
C17_LoadKeepsStoredPlans == [][PageLoad => stored' = stored]_vars

\* C18: a change of theme leaves every stored plan unchanged, and the plan
\* stored for a theme changes only through a save or a schedule change made
\* while that theme is the current one.
C18_PlansPerTheme ==
    [][/\ theme' # theme => stored' = stored
       /\ \A t \in Themes :
             stored'[t] # stored[t] => (t = theme /\ (SavePlan \/ ScheduleChange))]_vars

\* C19: after a schedule change that altered the list, undo would show the
\* list as it was before the change; with an empty history undo changes
\* nothing.
C19_UndoRestores ==
    [][/\ (ScheduleChange /\ activities' # activities)
            => (Len(past') > 0 /\ UndoTarget' = activities)
       /\ (Undo /\ Len(past) = 0) => UNCHANGED vars]_vars

\* C20: after an undo that found an entry, the redo history starts with the
\* list the undo replaced, so that redo restores it; a schedule change
\* leaves the redo history empty.
C20_RedoAfterUndo ==
    [][/\ (Undo /\ Len(past) > 0) => (Len(future') > 0 /\ future'[1] = activities)
       /\ ScheduleChange => future' = <<>>]_vars

----------------------------------------------------------------------------
(* The PersistenceManager *)

\* C21: once IndexedDB is absent or its open has failed, this.db stays null
\* and nothing opens it again; and every call writes to the backend that
\* this.db selects and leaves the other one as it was.
C21_FlatKeyModeOneBackend ==
    [][/\ openRequest \in {"none", "error"} =>
            ~db /\ ~db' /\ openRequest' = openRequest
       /\ clock' # clock => IF db THEN ls' = ls ELSE idb' = idb]_vars

C21_Witness ==
    /\ openRequest = "error"
    /\ reply.op = "savePlan"
    /\ ls.plans # {}
    /\ idb = EmptyIdb

\* C22: an updatePlan that resolved leaves the plan with the version it had
\* plus 1, whatever the patch carries, in either backend; and no call lowers
\* the version of a plan that stays stored.
C22_UpdateIncrementsVersion ==
    [][\A id \in PlanIds :
        /\ (clock' # clock /\ reply'.op = "updatePlan" /\ reply'.id = id
                /\ reply'.error = "")
            => getPlan(Manager, id)'.version = getPlan(Manager, id).version + 1
        /\ (db' = db /\ getPlan(Manager, id)'.id = id)
            => getPlan(Manager, id)'.version >= getPlan(Manager, id).version]_vars

\* C23: updatePlan of an id the selected backend holds no plan for rejects
\* with "Plan not found" and leaves both backends as they were: no plan row
\* and no activity record is written.
C23_UpdateOfMissingPlan ==
    [][\A id \in PlanIds :
        (clock' # clock /\ reply'.op = "updatePlan" /\ reply'.id = id
            /\ getPlan(Manager, id) = NullPlan)
        => reply'.error = "Plan not found" /\ idb' = idb /\ ls' = ls]_vars

C23_Witness ==
    /\ db
    /\ reply.op = "updatePlan"
    /\ reply.error = "Plan not found"
    /\ idb.plans # {}

\* The activity records of a plan, and those of every other plan.
RecordsOf(store, id) == {r \in store.activities : r.planId = id}
RecordsOfOthers(store, id) == {r \in store.activities : r.planId # id}

\* C24: in IndexedDB mode, after an updatePlan(id, patch) that resolved, the
\* activity records of plan id are those of the patch's activity list and
\* the records of the other plans are as before; without an activity list
\* in the patch no record changes.
C24_UpdateReplacesIndex ==
    [][\A id \in PlanIds, updates \in Patches :
        (db /\ CallUpdatePlan(id, updates) /\ reply'.error = "")
        => IF "activities" \in updates.fields
           THEN /\ RecordsOf(idb', id) =
                      {IndexRecord(updates.activities[i], id) :
                          i \in 1..Len(updates.activities)}
                /\ RecordsOfOthers(idb', id) = RecordsOfOthers(idb, id)
           ELSE idb'.activities = idb.activities]_vars

\* The plans other than the one with this id.
OtherPlans(store, id) == {q \in store.plans : q.id # id}

AllPlans(m) == {getAllPlans(m)[i] : i \in 1..Len(getAllPlans(m))}
Templates(m) == {q \in AllPlans(m) : q.isTemplate}
ThemePlans(m, t) == {q \in AllPlans(m) : q.theme = t /\ ~q.isTemplate}

\* C26: saveThemePlan(theme, activities) updates the first plan of the theme
\* that is no template when there is one (no plan is added, no template
\* changes) and adds a plan that is no template otherwise (so a theme that
\* had at most one such plan has one); afterwards getThemePlan(theme) has
\* the activities of the call.
C26_SaveThemePlan ==
    [][\A t \in StoreThemes, list \in StoreLists :
        CallSaveThemePlan(t, list)
        => /\ getThemePlan(Manager, t)'.activities = list
           /\ getThemePlan(Manager, t)'.id # 0
           /\ Templates(Manager)' = Templates(Manager)
           /\ IF getThemePlan(Manager, t) # NullPlan
              THEN /\ Cardinality(AllPlans(Manager)') = Cardinality(AllPlans(Manager))
                   /\ getThemePlan(Manager, t)'.id = getThemePlan(Manager, t).id
              ELSE /\ Cardinality(AllPlans(Manager)') = Cardinality(AllPlans(Manager)) + 1
                   /\ Cardinality(ThemePlans(Manager, t)') = 1]_vars

\* C27: importData of n plans leaves every plan stored before as it was and
\* adds n plans, each under an id generated by the call, with version 1 and
\* createdAt = updatedAt taken during the call.
C27_ImportAddsPlans ==
    [][\A data \in Exports :
        CallImportData(data)
        => /\ AllPlans(Manager) \subseteq AllPlans(Manager)'
           /\ Cardinality(AllPlans(Manager)') =
                  Cardinality(AllPlans(Manager)) + Len(data.plans)
           /\ \A q \in AllPlans(Manager)' \ AllPlans(Manager) :
                  /\ q.id > clock
                  /\ q.version = 1
                  /\ q.createdAt = q.updatedAt
                  /\ q.createdAt > clock]_vars

\* The fields of an activity an export and import has to keep.
KeptFields == {"title", "category", "day", "start", "durationMins", "mood", "notes"}

SameActivities(l1, l2) ==
    /\ Len(l1) = Len(l2)
    /\ \A i \in 1..Len(l1) : \A f \in KeptFields : l1[i][f] = l2[i][f]

\* C28: after importData of an export (of this store or of another one, into
\* an empty store or not), an export holds, for every plan of the imported
\* export, a plan stored by the import whose activities have the same
\* title, category, day, start, durationMins, mood and notes.
C28_ExportImportExport ==
    [][\A data \in Exports :
        CallImportData(data)
        => \A i \in 1..Len(data.plans) :
              \E j \in 1..Len(exportAllData(Manager)'.plans) :
                  /\ exportAllData(Manager)'.plans[j].id > clock
                  /\ SameActivities(exportAllData(Manager)'.plans[j].activities,
                                    data.plans[i].activities)]_vars

\* C29: getSettings(k) after saveSettings(k, v) gives v, for every key and
\* every value that is not null (false, 0 and the empty string included), in
\* either backend; and getSettings of a key the backend holds nothing for
\* gives null.
C29_SettingsRoundTrip ==
    [][/\ \A key \in SettingKeys, value \in SettingValues :
            CallSaveSettings(key, value) => getSettings(Manager, key)' = value
       /\ \A key \in SettingKeys :
            ~(IF db THEN idb.settings[key].present ELSE ls.settings[key].present)
            => getSettings(Manager, key) = JsNull]_vars

\* What the read calls of a session return: getAllPlans (and so getPlan of
\* every id) without the timestamps, getSettings of every key, getStats.
Timeless(plan) == [f \in DOMAIN plan \ {"createdAt", "updatedAt"} |-> plan[f]]

Observed(m) ==
    [plans |-> [i \in 1..Len(getAllPlans(m)) |-> Timeless(getAllPlans(m)[i])],
     found |-> [id \in PlanIds |-> Timeless(getPlan(m, id))],
     settings |-> [key \in SettingKeys |-> getSettings(m, key)],
     stats |-> getStats(m)]

\* C30: after the same calls the session with IndexedDB and the session
\* without it return the same plans with the same versions, the same
\* setting values and the same statistics, storageUsed being 0.
C30_BackendsEquivalent ==
    /\ Observed(Structured) = Observed(FlatKey)
    /\ getStats(Structured).storageUsed = 0
    /\ getStats(FlatKey).storageUsed = 0

\* C31: without IndexedDB, a savePlan whose setItem throws rejects with
\* "Failed to save plan to localStorage"; no plan is stored under the id it
\* generated and getAllPlans gives what it gave before.
C31_SaveFailsOnQuota ==
    [][\A plan \in NewPlans :
        (~db /\ ls.full /\ CallSavePlan(plan))
        => /\ reply'.error = "Failed to save plan to localStorage"
           /\ getPlan(Manager, clock + 1)' = NullPlan
           /\ getAllPlans(Manager)' = getAllPlans(Manager)]_vars

C31_Witness ==
    /\ ls.full
    /\ reply.op = "savePlan"
    /\ reply.error = "Failed to save plan to localStorage"
    /\ Len(getAllPlans(Manager)) = 1

\* C32: when two tabs interleave updatePlan and saveThemePlan on a stored
\* plan, a tab's call is not rejected (the version it read may be stale),
\* and once it has settled the stored plan is what that tab wrote: the
\* activity list and the version of its patch, until the next writer.
C32_LastWriterWins ==
    [][/\ \A tab \in Tabs, id \in PlanIds, list \in StoreLists :
            (TabWriteThemePlan(tab) /\ tabs[tab].id = id /\ tabs[tab].list = list
                /\ getPlan(Manager, id) # NullPlan)
            => /\ reply'.error = ""
               /\ getPlan(Manager, id)'.activities = list
       /\ \A tab \in Tabs, id \in PlanIds, updates \in Patches :
            (TabUpdatePlan(tab, id, updates) /\ getPlan(Manager, id) # NullPlan)
            => /\ reply'.error = ""
               /\ "activities" \in updates.fields
                    => getPlan(Manager, id)'.activities = updates.activities
               /\ "theme" \in updates.fields
                    => getPlan(Manager, id)'.theme = updates.theme]_vars

\* The indices of a list of virtual items.
IndicesOf(items) == {items[k].index : k \in 1..Len(items)}

\* The indices are consecutive and inside 0..n-1.
ContiguousIn(items, n) ==
    /\ \A k \in 1..Len(items) : items[k].index \in 0..(n - 1)
    /\ \A k \in 1..(Len(items) - 1) : items[k + 1].index = items[k].index + 1

\* The span [start, end] meets the viewport [scrollOffset, scrollOffset +
\* containerHeight], a common boundary point counting.
Intersects(start, end, scrollOffset) ==
    start <= scrollOffset + ContainerHeight /\ end >= scrollOffset

\* The same, the span's end point not counting.
Overlaps(start, end, scrollOffset) ==
    start <= scrollOffset + ContainerHeight /\ end > scrollOffset

\* C33 as stated: a virtualized list's indices are a contiguous range inside
\* [0, n-1] that holds every index whose span [start, end] intersects the
\* viewport, for every overscan and every scroll offset.
C33_WindowHoldsIntersecting ==
    LET n == Len(view.acts)
        timeline == useTimelineVirtualization(view.acts, view.itemHeights, view.scrollOffset)
    IN  n > Threshold =>
        /\ \A overscan \in Overscans :
              LET items == useVirtualization(n, view.scrollOffset, overscan)
              IN  /\ ContiguousIn(items, n)
                  /\ \A i \in 0..(n - 1) :
                        Intersects(i * ItemHeight, (i + 1) * ItemHeight, view.scrollOffset)
                        => i \in IndicesOf(items)
        /\ ContiguousIn(timeline, n)
        /\ \A i \in 0..(n - 1) :
              Intersects(OffsetAt(view.itemHeights, i), OffsetAt(view.itemHeights, i + 1),
                         view.scrollOffset)
              => i \in IndicesOf(timeline)

\* C33 amended: the range holds every index whose span [start, end] has
\* start <= scrollOffset + containerHeight and end > scrollOffset.
C33_WindowHoldsOverlapping ==
    LET n == Len(view.acts)
        timeline == useTimelineVirtualization(view.acts, view.itemHeights, view.scrollOffset)
    IN  n > Threshold =>
        /\ \A overscan \in Overscans :
              LET items == useVirtualization(n, view.scrollOffset, overscan)
              IN  /\ ContiguousIn(items, n)
                  /\ \A i \in 0..(n - 1) :
                        Overlaps(i * ItemHeight, (i + 1) * ItemHeight, view.scrollOffset)
                        => i \in IndicesOf(items)
        /\ ContiguousIn(timeline, n)
        /\ \A i \in 0..(n - 1) :
              Overlaps(OffsetAt(view.itemHeights, i), OffsetAt(view.itemHeights, i + 1),
                       view.scrollOffset)
              => i \in IndicesOf(timeline)

\* A long list scrolled so far that both hooks leave items out at the start
\* and the viewport's top is an item boundary.
C33_Witness ==
    /\ Len(view.acts) = 8
    /\ view.itemHeights = Heights(view.acts)
    /\ view.scrollOffset = 60
    /\ 0 \notin IndicesOf(useVirtualization(8, view.scrollOffset, 0))
    /\ 0 \notin IndicesOf(useTimelineVirtualization(view.acts, view.itemHeights,
                                                    view.scrollOffset))

\* C34: every virtual item of either hook, virtualized or not, has start =
\* the sum of the sizes of the items before it and end = start + size, the
\* sizes being those of the collection rendered: also in the render that
\* follows a change of the collection, before the effect has run.
C34_TrueOffsets ==
    LET n == Len(view.acts)
        sizes == Heights(view.acts)
        timeline == useTimelineVirtualization(view.acts, view.itemHeights, view.scrollOffset)
    IN  /\ \A overscan \in Overscans :
              LET items == useVirtualization(n, view.scrollOffset, overscan)
              IN  \A k \in 1..Len(items) :
                    /\ items[k].size = ItemHeight
                    /\ items[k].start = items[k].index * ItemHeight
                    /\ items[k].end = items[k].start + items[k].size
        /\ \A k \in 1..Len(timeline) :
              /\ timeline[k].size = sizes[timeline[k].index + 1]
              /\ timeline[k].start = SliceSum(sizes, timeline[k].index)
              /\ timeline[k].end = timeline[k].start + timeline[k].size

\* The place of the last call of func in the log (0: never called), and the
\* invocations of func after it.
LastCall(func) ==
    LET calls == {i \in 1..Len(timers.log) :
                     timers.log[i].kind = "call" /\ timers.log[i].func = func}
    IN  IF calls = {} THEN 0 ELSE CHOOSE i \in calls : \A j \in calls : j <= i

InvokedSince(func, place) ==
    {i \in (place + 1)..Len(timers.log) :
        timers.log[i].kind = "invoke" /\ timers.log[i].func = func}

\* C35: a call of a wrapper does not invoke func; after the last call of a
\* burst either the timer for that call is still running or func has been
\* invoked once since, with the arguments of that call.  So when the delay
\* has passed without a further call, func has run exactly once.
C35_DebounceInvokesOnce ==
    \A w \in Wrappers :
        LET place == LastCall(w.func)
            running == {e \in timers.pending :
                           e.func = w.func /\ e.args = timers.log[place].args}
            since == InvokedSince(w.func, place)
        IN  place # 0 =>
                \/ Cardinality(running) = 1 /\ since = {}
                \/ /\ running = {}
                   /\ Cardinality(since) = 1
                   /\ \A i \in since : timers.log[i].args = timers.log[place].args

\* C39: a call of a wrapper made without a key leaves the timer of every
\* other such wrapper running, whatever functions the two wrap.
C39_WrappersApart ==
    [][\A w \in Wrappers, args \in CallArgs :
          CallWrapper(w, args) /\ w.key = ""
              => \A e \in timers.pending :
                    e.func # w.func /\ (\E v \in Wrappers : v.func = e.func /\ v.key = "")
                        => e \in timers'.pending]_vars

\* C36: a session keeps to one backend, so the plan of a savePlan that
\* resolved after writing the flat-key backend is what getPlan of its id
\* returns for as long as no other call has settled.
C36_SavedPlanIsRead ==
    /\ reply.op = "savePlan"
    /\ reply.error = ""
    /\ (\E q \in ls.plans : q.key = reply.id)
    => getPlan(Manager, reply.id) = getPlanFromLocalStorage(ls, reply.id)

\* C37: in the structured backend a savePlan that resolved has committed the
\* plan row and an index record for each of the plan's activities: getPlan
\* of the id returns the plan, also when the index holds one of the
\* activity ids under another plan.
C37_SaveCommits ==
    [][\A plan \in NewPlans :
          db /\ CallSavePlan(plan) /\ reply'.error = ""
              => /\ getPlan(Manager, reply.id)' # NullPlan
                 /\ getPlan(Manager, reply.id)'.activities = plan.activities
                 /\ \A i \in 1..Len(plan.activities) :
                        \E r \in idb'.activities :
                            r.id = plan.activities[i].id /\ r.planId = reply'.id]_vars

\* C38: a stored plan is stored under its id, and the plan under a key keeps
\* its id and createdAt through every call, whatever the patch of an
\* updatePlan carries.
C38_IdAndCreatedAtKept ==
    [][/\ \A q \in ls'.plans : q.key = q.id
       /\ \A id \in PlanIds :
             getPlan(Manager, id) # NullPlan /\ getPlan(Manager, id)' # NullPlan
                 => /\ getPlan(Manager, id)'.id = getPlan(Manager, id).id
                    /\ getPlan(Manager, id)'.createdAt = getPlan(Manager, id).createdAt]_vars

\* C40: handleFetch gives a response for every GET request; when the fetch
\* it made was rejected, the response is the one the dynamic cache holds for
\* the request, and without one the offline page for a document and the 503
\* response for anything else.
C40_AlwaysResponds ==
    [][\A request \in Requests, stores \in BOOLEAN :
          \A network \in NetworkOutcomes(request) :
              Fetch(request, network, stores)
                  => /\ sw'.response # Undefined
                     /\ /\ network = NetworkError
                        /\ ~(isStaticAsset(request)
                                /\ getFromCache(sw.static, request.pathname) # Undefined)
                        => IF getFromCache(sw.dynamic, request.pathname) # Undefined
                           THEN sw'.response = getFromCache(sw.dynamic, request.pathname)
                           ELSE IF request.destination = "document"
                           THEN sw'.response.url = "/offline.html" /\ ok(sw'.response)
                           ELSE sw'.response = OfflineResponse]_vars

====
